---- MODULE Spec2Model ----
(***************************************************************************)
(* Requirement parser, pytest generator and test reporter of               *)
(* AI_Test_Automation.                                                     *)
(*                                                                         *)
(* A Python str is modelled as a sequence of one-character strings, so     *)
(* that substring tests, lower(), strip() and the regular expressions of   *)
(* the parser are computed character by character.  The literal parts of   *)
(* the generator's templates are kept as single multi-character items of   *)
(* the generated text.                                                     *)
(***************************************************************************)
EXTENDS Naturals, Integers, Sequences, FiniteSets, TLC

VARIABLES
    action_keywords,    \* RequirementsParser.action_keywords
    pc,                 \* position in the pipeline: "idle", "parsed", "generated", ...
    requirement_text,   \* argument of the last parse_requirement call
    parsed,             \* record returned by the last parse_requirement call
    requirement,        \* argument of the last generate_test_from_requirement call
    test_code,          \* text returned by the last generate_test_from_requirement call
    calls,              \* log of <<text, record>> of the parse calls made on the parser
    files,              \* the files of the output directory: path -> content
    clock,              \* the wall clock read by datetime.now(), in seconds
    requirements,       \* the batch of records the caller holds
    last_op,            \* the last Generator method called on a batch
    returned,           \* what that call returned
    written,            \* the paths that call wrote, in order
    file_name,          \* argument filename of the last generate_test_file call
    write_log,          \* every path written since the directory was empty, in order
    ops,                \* number of Generator calls made so far
    name_call,          \* <<feature, conditions>>: arguments of the last _generate_test_name call
    name_result,        \* the name it returned
    report_pc,          \* position of the TestReporter call: "ready", "pytest", "allure", "returned", "raised"
    report_call,        \* the run_tests_with_*_report call being made
    proc,               \* the external process subprocess.run waits for
    completed,          \* the CompletedProcess of the pytest run
    result,             \* the record the call returned
    workers,            \* the generate_test_file invocations that run in parallel: their arguments, locals and position
    lists,              \* the list objects a Calculator has made, by identity
    history,            \* Calculator.history: the identity of the list it refers to
    calc_op,            \* the last call made on the Calculator, with its arguments
    calc_returned,      \* what that call returned
    calc_log            \* every call made on the Calculator since its construction, in order

parserVars == <<action_keywords, pc, requirement_text, parsed, requirement, test_code, calls>>
fileVars == <<files, clock, requirements, last_op, returned, written, file_name, write_log, ops>>
nameVars == <<name_call, name_result>>
reportVars == <<report_pc, report_call, proc, completed, result>>
parallelVars == <<workers>>
calcVars == <<lists, history, calc_op, calc_returned, calc_log>>
vars == <<parserVars, fileVars, nameVars, reportVars, parallelVars, calcVars>>

-----------------------------------------------------------------------------
(* Characters and Python str primitives *)

LowerLetters == <<"a", "b", "c", "d", "e", "f", "g", "h", "i", "j", "k", "l", "m",
                  "n", "o", "p", "q", "r", "s", "t", "u", "v", "w", "x", "y", "z">>
UpperLetters == <<"A", "B", "C", "D", "E", "F", "G", "H", "I", "J", "K", "L", "M",
                  "N", "O", "P", "Q", "R", "S", "T", "U", "V", "W", "X", "Y", "Z">>
DigitChars == {"0", "1", "2", "3", "4", "5", "6", "7", "8", "9"}

Range(s) == {s[k] : k \in 1..Len(s)}

\* str.isspace() and the class \s of re
IsSpace(c) == c \in {" ", "\t", "\n", "\r"}

\* the class \w of re
IsWordChar(c) == c \in Range(LowerLetters) \cup Range(UpperLetters) \cup DigitChars \cup {"_"}

LowerChar(c) ==
    IF c \in Range(UpperLetters)
    THEN LowerLetters[CHOOSE k \in 1..Len(UpperLetters) : UpperLetters[k] = c]
    ELSE c

\* str.lower()
str_lower(s) == [k \in 1..Len(s) |-> LowerChar(s[k])]

RECURSIVE LStripFrom(_, _)
LStripFrom(s, i) ==
    IF i > Len(s) THEN i
    ELSE IF IsSpace(s[i]) THEN LStripFrom(s, i + 1) ELSE i

RECURSIVE RStripFrom(_, _)
RStripFrom(s, j) ==
    IF j < 1 THEN j
    ELSE IF IsSpace(s[j]) THEN RStripFrom(s, j - 1) ELSE j

\* str.strip()
str_strip(s) == SubSeq(s, LStripFrom(s, 1), RStripFrom(s, Len(s)))

\* w occurs in s at position i
MatchAt(s, i, w) ==
    /\ i >= 1
    /\ i + Len(w) - 1 <= Len(s)
    /\ \A k \in 1..Len(w) : s[i + k - 1] = w[k]

\* Python's  w in s
str_in(w, s) == \E i \in 1..(Len(s) - Len(w) + 1) : MatchAt(s, i, w)

RECURSIVE SpaceRun(_, _)
\* length of the longest run of \s starting at i
SpaceRun(s, i) ==
    IF i > Len(s) THEN 0
    ELSE IF IsSpace(s[i]) THEN 1 + SpaceRun(s, i + 1) ELSE 0

RECURSIVE WordRun(_, _)
\* length of the longest run of \w starting at i
WordRun(s, i) ==
    IF i > Len(s) THEN 0
    ELSE IF IsWordChar(s[i]) THEN 1 + WordRun(s, i + 1) ELSE 0

-----------------------------------------------------------------------------
(* Words of the parser *)

kw_login == <<"l", "o", "g", "i", "n">>
kw_register == <<"r", "e", "g", "i", "s", "t", "e", "r">>
kw_validate == <<"v", "a", "l", "i", "d", "a", "t", "e">>
kw_authenticate == <<"a", "u", "t", "h", "e", "n", "t", "i", "c", "a", "t", "e">>
kw_create == <<"c", "r", "e", "a", "t", "e">>
kw_delete == <<"d", "e", "l", "e", "t", "e">>
kw_update == <<"u", "p", "d", "a", "t", "e">>
kw_view == <<"v", "i", "e", "w">>
kw_display == <<"d", "i", "s", "p", "l", "a", "y">>
kw_search == <<"s", "e", "a", "r", "c", "h">>

w_should == <<"s", "h", "o", "u", "l", "d">>
w_with == <<"w", "i", "t", "h">>
w_using == <<"u", "s", "i", "n", "g">>
w_valid == <<"v", "a", "l", "i", "d">>
w_invalid == <<"i", "n", "v", "a", "l", "i", "d">>
w_and == <<"a", "n", "d">>
w_successful == <<"s", "u", "c", "c", "e", "s", "s", "f", "u", "l">>
w_failure == <<"f", "a", "i", "l", "u", "r", "e">>
w_error == <<"e", "r", "r", "o", "r">>

unknown_feature == <<"u", "n", "k", "n", "o", "w", "n", "_", "f", "e", "a", "t", "u", "r", "e">>
no_specific_conditions ==
    <<"n", "o", " ", "s", "p", "e", "c", "i", "f", "i", "c", " ",
      "c", "o", "n", "d", "i", "t", "i", "o", "n", "s">>
failure_or_error_message ==
    <<"f", "a", "i", "l", "u", "r", "e", " ", "o", "r", " ",
      "e", "r", "r", "o", "r", " ", "m", "e", "s", "s", "a", "g", "e">>
system_responds_appropriately ==
    <<"s", "y", "s", "t", "e", "m", " ", "r", "e", "s", "p", "o", "n", "d", "s", " ",
      "a", "p", "p", "r", "o", "p", "r", "i", "a", "t", "e", "l", "y">>
successful_prefix == <<"s", "u", "c", "c", "e", "s", "s", "f", "u", "l", " ">>

\* RequirementsParser.__init__: the ordered vocabulary
InitActionKeywords ==
    <<kw_login, kw_register, kw_validate, kw_authenticate, kw_create,
      kw_delete, kw_update, kw_view, kw_display, kw_search>>

-----------------------------------------------------------------------------
(* Regular expressions of the parser *)

\* a match is <<start, group start, group end (inclusive), match end (exclusive)>>;
\* <<>> is no match
NoMatch == <<>>

\* kw\s+(\w+) anchored at i: \s+ is greedy and \w cannot take a \s character
WordAfterAt(s, i, kw) ==
    LET m == SpaceRun(s, i + Len(kw))
        g == i + Len(kw) + m
        w == WordRun(s, g)
    IN  IF MatchAt(s, i, kw) /\ m >= 1 /\ w >= 1
        THEN <<i, g, g + w - 1, g + w>>
        ELSE NoMatch

\* the alternation that ends a phrase, tried at position p in the order of the
\* pattern: \s+and (only when withAnd), \s*\. , \s*$ ; the result is the
\* position after the match, 0 when no alternative matches
Terminator(s, p, withAnd) ==
    LET r == SpaceRun(s, p)
    IN  IF withAnd /\ r >= 1 /\ MatchAt(s, p + r, w_and) THEN p + r + Len(w_and)
        ELSE IF p + r <= Len(s) /\ s[p + r] = "." THEN p + r + 1
        ELSE IF p + r = Len(s) + 1 THEN p + r
        ELSE 0

RECURSIVE LazyGroup(_, _, _, _, _)
\* the lazy group (X+?) starting at g, now tried with its end at e; X is
\* every character but excl
LazyGroup(s, g, e, excl, withAnd) ==
    IF e > Len(s) \/ s[e] = excl THEN NoMatch
    ELSE LET t == Terminator(s, e + 1, withAnd)
         IN  IF t # 0 THEN <<g, e, t>>
             ELSE LazyGroup(s, g, e + 1, excl, withAnd)

RECURSIVE PhraseWithSpaces(_, _, _, _, _, _)
\* kw\s+(X+?)(?:...) anchored at i with \s+ taking w characters; on failure
\* the greedy \s+ gives back one character
PhraseWithSpaces(s, i, kw, w, excl, withAnd) ==
    IF w < 1 THEN NoMatch
    ELSE LET g == i + Len(kw) + w
             r == LazyGroup(s, g, g, excl, withAnd)
         IN  IF r # NoMatch THEN <<i, r[1], r[2], r[3]>>
             ELSE PhraseWithSpaces(s, i, kw, w - 1, excl, withAnd)

PhraseAt(s, i, kw, excl, withAnd) ==
    IF MatchAt(s, i, kw)
    THEN PhraseWithSpaces(s, i, kw, SpaceRun(s, i + Len(kw)), excl, withAnd)
    ELSE NoMatch

RECURSIVE re_search_word(_, _, _)
\* re.search(r'kw\s+(\w+)', s) from position i: group(1), or NoMatch
re_search_word(s, i, kw) ==
    IF i > Len(s) THEN NoMatch
    ELSE LET m == WordAfterAt(s, i, kw)
         IN  IF m # NoMatch THEN m ELSE re_search_word(s, i + 1, kw)

RECURSIVE re_search_phrase(_, _, _, _, _)
\* re.search(r'kw\s+(X+?)(?:...)', s) from position i
re_search_phrase(s, i, kw, excl, withAnd) ==
    IF i > Len(s) THEN NoMatch
    ELSE LET m == PhraseAt(s, i, kw, excl, withAnd)
         IN  IF m # NoMatch THEN m ELSE re_search_phrase(s, i + 1, kw, excl, withAnd)

RECURSIVE re_findall_phrase(_, _, _, _, _)
\* re.findall(r'kw\s+(X+?)(?:...)', s): the groups of the successive
\* non-overlapping matches, left to right
re_findall_phrase(s, i, kw, excl, withAnd) ==
    LET m == re_search_phrase(s, i, kw, excl, withAnd)
    IN  IF m = NoMatch THEN <<>>
        ELSE <<SubSeq(s, m[2], m[3])>> \o re_findall_phrase(s, m[4], kw, excl, withAnd)

RECURSIVE re_findall_word(_, _, _)
\* re.findall(r'(kw\s+\w+)', s): the successive non-overlapping matches
re_findall_word(s, i, kw) ==
    LET m == re_search_word(s, i, kw)
    IN  IF m = NoMatch THEN <<>>
        ELSE <<SubSeq(s, m[1], m[3])>> \o re_findall_word(s, m[4], kw)

-----------------------------------------------------------------------------
(* RequirementsParser *)

RECURSIVE FirstKeyword(_, _, _)
\* the loop  for keyword in self.action_keywords: if keyword in text: return keyword
FirstKeyword(keywords, k, text) ==
    IF k > Len(keywords) THEN NoMatch
    ELSE IF str_in(keywords[k], text) THEN keywords[k]
    ELSE FirstKeyword(keywords, k + 1, text)

RECURSIVE EarliestKeyword(_, _, _)
\* the vocabulary word that occurs first in the text
EarliestKeyword(keywords, i, text) ==
    IF i > Len(text) THEN NoMatch
    ELSE LET here == {k \in 1..Len(keywords) : MatchAt(text, i, keywords[k])}
         IN  IF here # {} THEN keywords[CHOOSE k \in here : \A j \in here : k <= j]
             ELSE EarliestKeyword(keywords, i + 1, text)

\* mutant of _extract_feature: the keyword is chosen by position in the text
_extract_feature_by_position(keywords, text) ==
    LET keyword == EarliestKeyword(keywords, 1, text)
        should_match == re_search_word(text, 1, w_should)
    IN  IF keyword # NoMatch THEN keyword
        ELSE IF should_match # NoMatch THEN SubSeq(text, should_match[2], should_match[3])
        ELSE unknown_feature

_extract_feature(keywords, text) ==
    LET keyword == FirstKeyword(keywords, 1, text)
        should_match == re_search_word(text, 1, w_should)
    IN  IF keyword # NoMatch THEN keyword
        ELSE IF should_match # NoMatch THEN SubSeq(text, should_match[2], should_match[3])
        ELSE unknown_feature

StripAll(matches) == [k \in 1..Len(matches) |-> str_strip(matches[k])]

\* mutant of _extract_conditions: the "using" pass runs before the "with" pass
_extract_conditions_using_first(text) ==
    LET with_match == re_findall_phrase(text, 1, w_with, ".", TRUE)
        using_match == re_findall_phrase(text, 1, w_using, ".", TRUE)
        valid_match == re_findall_word(text, 1, w_valid)
        invalid_match == re_findall_word(text, 1, w_invalid)
        conditions == StripAll(using_match) \o StripAll(with_match)
                      \o valid_match \o invalid_match
    IN  IF conditions # <<>> THEN conditions ELSE <<no_specific_conditions>>

\* mutant of _extract_conditions: no sentinel for an empty result
_extract_conditions_no_sentinel(text) ==
    LET with_match == re_findall_phrase(text, 1, w_with, ".", TRUE)
        using_match == re_findall_phrase(text, 1, w_using, ".", TRUE)
        valid_match == re_findall_word(text, 1, w_valid)
        invalid_match == re_findall_word(text, 1, w_invalid)
    IN  StripAll(with_match) \o StripAll(using_match) \o valid_match \o invalid_match

_extract_conditions(text) ==
    LET with_match == re_findall_phrase(text, 1, w_with, ".", TRUE)
        using_match == re_findall_phrase(text, 1, w_using, ".", TRUE)
        valid_match == re_findall_word(text, 1, w_valid)
        invalid_match == re_findall_word(text, 1, w_invalid)
        conditions == StripAll(with_match) \o StripAll(using_match)
                      \o valid_match \o invalid_match
    IN  IF conditions # <<>> THEN conditions ELSE <<no_specific_conditions>>

\* mutant of _extract_expected_outcome: the failure keywords are tested first
_extract_expected_outcome_failure_first(keywords, text) ==
    IF str_in(w_failure, text) \/ str_in(w_error, text)
    THEN failure_or_error_message
    ELSE IF str_in(w_successful, text)
    THEN successful_prefix \o _extract_feature(keywords, text)
    ELSE LET should_match == re_search_phrase(text, 1, w_should, "\n", FALSE)
         IN  IF should_match # NoMatch
             THEN str_strip(SubSeq(text, should_match[2], should_match[3]))
             ELSE system_responds_appropriately

_extract_expected_outcome(keywords, text) ==
    IF str_in(w_successful, text)
    THEN successful_prefix \o _extract_feature(keywords, text)
    ELSE IF str_in(w_failure, text) \/ str_in(w_error, text)
    THEN failure_or_error_message
    ELSE LET should_match == re_search_phrase(text, 1, w_should, "\n", FALSE)
         IN  IF should_match # NoMatch
             THEN str_strip(SubSeq(text, should_match[2], should_match[3]))
             ELSE system_responds_appropriately

Normalize(requirement_text_) == str_strip(str_lower(requirement_text_))

parse_requirement(keywords, requirement_text_) ==
    LET text == Normalize(requirement_text_)
    IN  [feature |-> _extract_feature(keywords, text),
         conditions |-> _extract_conditions(text),
         expected |-> _extract_expected_outcome(keywords, text),
         original_text |-> requirement_text_]

-----------------------------------------------------------------------------
(* Generator (test_generator.py) *)

w_registration == <<"r", "e", "g", "i", "s", "t", "r", "a", "t", "i", "o", "n">>
w_validation == <<"v", "a", "l", "i", "d", "a", "t", "i", "o", "n">>
w_or == <<"o", "r">>
w_unknown == <<"u", "n", "k", "n", "o", "w", "n">>
w_success == <<"s", "u", "c", "c", "e", "s", "s">>
test_prefix == <<"t", "e", "s", "t", "_">>
comma_space == <<",", " ">>

\* str.replace(old, new) for one-character old and new
str_replace(s, old, new) == [k \in 1..Len(s) |-> IF s[k] = old THEN new ELSE s[k]]

RECURSIVE SplitAcc(_, _, _, _)
SplitAcc(s, i, sep, cur) ==
    IF i > Len(s) THEN <<cur>>
    ELSE IF s[i] = sep THEN <<cur>> \o SplitAcc(s, i + 1, sep, <<>>)
    ELSE SplitAcc(s, i + 1, sep, Append(cur, s[i]))

\* str.split(sep) for a one-character sep
str_split(s, sep) == SplitAcc(s, 1, sep, <<>>)

RECURSIVE str_join(_, _)
\* sep.join(parts)
str_join(sep, parts) ==
    IF parts = <<>> THEN <<>>
    ELSE IF Len(parts) = 1 THEN parts[1]
    ELSE parts[1] \o sep \o str_join(sep, Tail(parts))

\* parts[:n]
Take(parts, n) == SubSeq(parts, 1, IF Len(parts) < n THEN Len(parts) ELSE n)

StopWords == {w_and, w_or, w_with, w_using}
IsMeaningful(word) == word \notin StopWords

\* mutant of _generate_test_name: three tokens of the condition are kept
_generate_test_name_three_tokens(feature, conditions) ==
    LET clean_feature == str_replace(str_replace(feature, " ", "_"), "-", "_")
        first_condition == str_replace(str_replace(conditions[1], " ", "_"), "-", "_")
        meaningful_words == SelectSeq(str_split(first_condition, "_"), IsMeaningful)
        condition_suffix ==
            IF conditions # <<>> /\ conditions # <<no_specific_conditions>>
            THEN IF meaningful_words # <<>>
                 THEN <<"_">> \o str_join(<<"_">>, Take(meaningful_words, 3))
                 ELSE <<>>
            ELSE <<>>
    IN  test_prefix \o clean_feature \o condition_suffix

_generate_test_name(feature, conditions) ==
    LET clean_feature == str_replace(str_replace(feature, " ", "_"), "-", "_")
        first_condition == str_replace(str_replace(conditions[1], " ", "_"), "-", "_")
        meaningful_words == SelectSeq(str_split(first_condition, "_"), IsMeaningful)
        condition_suffix ==
            IF conditions # <<>> /\ conditions # <<no_specific_conditions>>
            THEN IF meaningful_words # <<>>
                 THEN <<"_">> \o str_join(<<"_">>, Take(meaningful_words, 2))
                 ELSE <<>>
            ELSE <<>>
    IN  test_prefix \o clean_feature \o condition_suffix

_generate_login_test(test_name, conditions, expected, original_text) ==
       <<"def ">>
    \o test_name
    \o <<"():\n",
         "    \"\"\"\n",
         "    Test case generated from requirement:\n",
         "    ">>
    \o original_text
    \o <<"\n",
         "\n",
         "    Feature: login\n",
         "    Conditions: ">>
    \o str_join(comma_space, conditions)
    \o <<"\n",
         "    Expected: ">>
    \o expected
    \o <<"\n",
         "    \"\"\"\n",
         "    # Arrange\n",
         "    username = \"valid_user\"\n",
         "    password = \"valid_password\"\n",
         "\n",
         "    # Act\n",
         "    result = login_system(username, password)\n",
         "\n",
         "    # Assert\n",
         "    assert result is not None, \"Login should return a result\"\n",
         "    assert result.get('status') == 'success', \"Login should be successful\"\n",
         "    assert 'user_id' in result, \"Login result should contain user_id\"\n",
         "\n",
         "def login_system(username: str, password: str) -> dict:\n",
         "    \"\"\"Mock login function - replace with actual implementation\"\"\"\n",
         "    if username and password:\n",
         "        return {\"status\": \"success\", \"user_id\": \"12345\"}\n",
         "    return {\"status\": \"failure\", \"error\": \"Invalid credentials\"}\n">>

_generate_register_test(test_name, conditions, expected, original_text) ==
       <<"def ">>
    \o test_name
    \o <<"():\n",
         "    \"\"\"\n",
         "    Test case generated from requirement:\n",
         "    ">>
    \o original_text
    \o <<"\n",
         "\n",
         "    Feature: register/registration\n",
         "    Conditions: ">>
    \o str_join(comma_space, conditions)
    \o <<"\n",
         "    Expected: ">>
    \o expected
    \o <<"\n",
         "    \"\"\"\n",
         "    # Arrange\n",
         "    user_data = {\n",
         "        \"username\": \"new_user\",\n",
         "        \"email\": \"user@example.com\",\n",
         "        \"password\": \"secure_password\"\n",
         "    }\n",
         "\n",
         "    # Act\n",
         "    result = register_user(user_data)\n",
         "\n",
         "    # Assert\n",
         "    assert result is not None, \"Registration should return a result\"\n",
         "    assert result.get('status') == 'success', \"Registration should be successful\"\n",
         "    assert 'user_id' in result, \"Registration result should contain user_id\"\n",
         "\n",
         "def register_user(user_data: dict) -> dict:\n",
         "    \"\"\"Mock registration function - replace with actual implementation\"\"\"\n",
         "    if user_data.get('email') and user_data.get('password'):\n",
         "        return {\"status\": \"success\", \"user_id\": \"67890\"}\n",
         "    return {\"status\": \"failure\", \"error\": \"Invalid user data\"}\n">>

_generate_validation_test(test_name, conditions, expected, original_text) ==
       <<"def ">>
    \o test_name
    \o <<"():\n",
         "    \"\"\"\n",
         "    Test case generated from requirement:\n",
         "    ">>
    \o original_text
    \o <<"\n",
         "\n",
         "    Feature: validate/validation\n",
         "    Conditions: ">>
    \o str_join(comma_space, conditions)
    \o <<"\n",
         "    Expected: ">>
    \o expected
    \o <<"\n",
         "    \"\"\"\n",
         "    # Arrange\n",
         "    test_data = \"sample_input\"\n",
         "\n",
         "    # Act\n",
         "    result = validate_input(test_data)\n",
         "\n",
         "    # Assert\n",
         "    assert result is not None, \"Validation should return a result\"\n",
         "    if \"valid\" in \"">>
    \o expected
    \o <<"\":\n",
         "        assert result.get('is_valid') is True, \"Input should be valid\"\n",
         "    else:\n",
         "        assert result.get('is_valid') is False, \"Input should be invalid\"\n",
         "\n",
         "def validate_input(data: str) -> dict:\n",
         "    \"\"\"Mock validation function - replace with actual implementation\"\"\"\n",
         "    if data and len(data) > 0:\n",
         "        return {\"is_valid\": True, \"message\": \"Valid input\"}\n",
         "    return {\"is_valid\": False, \"message\": \"Invalid input\"}\n">>

_generate_search_test(test_name, conditions, expected, original_text) ==
       <<"def ">>
    \o test_name
    \o <<"():\n",
         "    \"\"\"\n",
         "    Test case generated from requirement:\n",
         "    ">>
    \o original_text
    \o <<"\n",
         "\n",
         "    Feature: search\n",
         "    Conditions: ">>
    \o str_join(comma_space, conditions)
    \o <<"\n",
         "    Expected: ">>
    \o expected
    \o <<"\n",
         "    \"\"\"\n",
         "    # Arrange\n",
         "    search_query = \"test query\"\n",
         "\n",
         "    # Act\n",
         "    results = search_function(search_query)\n",
         "\n",
         "    # Assert\n",
         "    assert results is not None, \"Search should return results\"\n",
         "    assert isinstance(results, list), \"Search results should be a list\"\n",
         "    if \"relevant\" in \"">>
    \o expected
    \o <<"\":\n",
         "        assert len(results) > 0, \"Search should return relevant results\"\n",
         "\n",
         "def search_function(query: str) -> list:\n",
         "    \"\"\"Mock search function - replace with actual implementation\"\"\"\n",
         "    if query:\n",
         "        return [{\"title\": \"Result 1\", \"relevance\": 0.9}]\n",
         "    return []\n">>

_generate_generic_test(test_name, feature, conditions, expected, original_text) ==
       <<"def ">>
    \o test_name
    \o <<"():\n",
         "    \"\"\"\n",
         "    Test case generated from requirement:\n",
         "    ">>
    \o original_text
    \o <<"\n",
         "\n",
         "    Feature: ">>
    \o feature
    \o <<"\n",
         "    Conditions: ">>
    \o str_join(comma_space, conditions)
    \o <<"\n",
         "    Expected: ">>
    \o expected
    \o <<"\n",
         "    \"\"\"\n",
         "    # Arrange\n",
         "    # TODO: Set up test data based on your specific feature\n",
         "    test_input = \"sample_input\"\n",
         "\n",
         "    # Act\n",
         "    # TODO: Replace with actual function call for '">>
    \o feature
    \o <<"'\n",
         "    result = ">>
    \o feature
    \o <<"_function(test_input)\n",
         "\n",
         "    # Assert\n",
         "    assert result is not None, f\"">>
    \o feature
    \o <<" should return a result\"\n",
         "    # TODO: Add specific assertions based on expected outcome: ">>
    \o expected
    \o <<"\n",
         "\n",
         "def ">>
    \o feature
    \o <<"_function(input_data):\n",
         "    \"\"\"Mock function for ">>
    \o feature
    \o <<" - replace with actual implementation\"\"\"\n",
         "    # TODO: Implement actual ">>
    \o feature
    \o <<" logic\n",
         "    return {\"status\": \"success\", \"data\": input_data}\n">>

\* mutant of _generate_test_code: the synonyms "registration" and "validation"
\* are not recognised
_generate_test_code_no_synonyms(test_name, feature, conditions, expected, original_text) ==
    IF feature = kw_login
    THEN _generate_login_test(test_name, conditions, expected, original_text)
    ELSE IF feature = kw_register
    THEN _generate_register_test(test_name, conditions, expected, original_text)
    ELSE IF feature = kw_validate
    THEN _generate_validation_test(test_name, conditions, expected, original_text)
    ELSE IF feature = kw_search
    THEN _generate_search_test(test_name, conditions, expected, original_text)
    ELSE _generate_generic_test(test_name, feature, conditions, expected, original_text)

_generate_test_code(test_name, feature, conditions, expected, original_text) ==
    IF feature = kw_login
    THEN _generate_login_test(test_name, conditions, expected, original_text)
    ELSE IF feature = kw_register \/ feature = w_registration
    THEN _generate_register_test(test_name, conditions, expected, original_text)
    ELSE IF feature = kw_validate \/ feature = w_validation
    THEN _generate_validation_test(test_name, conditions, expected, original_text)
    ELSE IF feature = kw_search
    THEN _generate_search_test(test_name, conditions, expected, original_text)
    ELSE _generate_generic_test(test_name, feature, conditions, expected, original_text)

\* dict.get(key, default)
\* mutant of Get: the default of the call is dropped for an empty one
Get_empty_default(d, key, default) == IF key \in DOMAIN d THEN d[key] ELSE <<>>

Get(d, key, default) == IF key \in DOMAIN d THEN d[key] ELSE default

\* mutant of generate_test_from_requirement: the text is read under a wrong key
generate_test_from_requirement_wrong_key(requirement_) ==
    LET feature == Get(requirement_, "feature", w_unknown)
        conditions == Get(requirement_, "conditions", <<>>)
        expected == Get(requirement_, "expected", w_success)
        original_text == Get(requirement_, "text", <<>>)
        test_name == _generate_test_name(feature, conditions)
    IN  _generate_test_code(test_name, feature, conditions, expected, original_text)

generate_test_from_requirement(requirement_) ==
    LET feature == Get(requirement_, "feature", w_unknown)
        conditions == Get(requirement_, "conditions", <<>>)
        expected == Get(requirement_, "expected", w_success)
        original_text == Get(requirement_, "original_text", <<>>)
        test_name == _generate_test_name(feature, conditions)
    IN  _generate_test_code(test_name, feature, conditions, expected, original_text)

-----------------------------------------------------------------------------
(* Generator: test files *)

\* Generator.__init__(output_dir="tests/generated")
output_dir == <<"t", "e", "s", "t", "s", "/", "g", "e", "n", "e", "r", "a", "t", "e", "d">>

DecimalDigits == <<"0", "1", "2", "3", "4", "5", "6", "7", "8", "9">>

RECURSIVE int_str(_)
\* str(n) of a natural number
int_str(n) ==
    IF n < 10 THEN <<DecimalDigits[n + 1]>>
    ELSE int_str(n \div 10) \o <<DecimalDigits[(n % 10) + 1]>>

\* the two digits %S of strftime
TwoDigits(n) == <<DecimalDigits[(n \div 10) + 1], DecimalDigits[(n % 10) + 1]>>

\* datetime.now().strftime("%Y%m%d_%H%M%S") when the clock reads second t of
\* 2024-01-01 12:00
strftime_compact(t) == <<"2", "0", "2", "4", "0", "1", "0", "1", "_", "1", "2", "0", "0">> \o TwoDigits(t)

\* datetime.now().strftime("%Y-%m-%d %H:%M:%S")
strftime_readable(t) == <<"2024-01-01 12:00:">> \o TwoDigits(t)

\* the value None of the parameter filename
None == <<"None">>

\* f"test_generated_{timestamp}.py"
default_filename(t) == <<"t", "e", "s", "t", "_", "g", "e", "n", "e", "r", "a", "t", "e", "d", "_">> \o strftime_compact(t) \o <<".", "p", "y">>

\* f"test_{feature}.py"
feature_filename(feature) == test_prefix \o feature \o <<".", "p", "y">>

\* os.path.join(directory, name) for a relative name
os_path_join(directory, name) == directory \o <<"/">> \o name

file_header(t, requirements_) ==
       <<"\"\"\"\n",
         "Generated Test File\n",
         "Created on: ">>
    \o strftime_readable(t)
    \o <<"\n",
         "Number of test cases: ">>
    \o int_str(Len(requirements_))
    \o <<"\n",
         "\n",
         "This file was automatically generated from structured requirements.\n",
         "Modify as needed for your specific implementation.\n",
         "\"\"\"\n",
         "\n",
         "import pytest\n",
         "from typing import Dict, List, Optional\n",
         "\n">>

\* mutant of full_content: the units are joined by a single line break
full_content_single_line_break(t, requirements_) ==
    LET test_cases == [k \in 1..Len(requirements_) |->
                          generate_test_from_requirement(requirements_[k])]
    IN  file_header(t, requirements_) \o str_join(<<"\n">>, test_cases)

\* header + "\n\n".join(test_cases), the header written at clock second t
full_content(t, requirements_) ==
    LET test_cases == [k \in 1..Len(requirements_) |->
                          generate_test_from_requirement(requirements_[k])]
    IN  file_header(t, requirements_) \o str_join(<<"\n\n">>, test_cases)

\* open(filepath, 'w').write(content)
WriteFile(fs, filepath, content) ==
    [p \in (DOMAIN fs) \cup {filepath} |-> IF p = filepath THEN content ELSE fs[p]]

\* generate_test_file(requirements_, filename) on the files fs, the clock
\* reading t1 for the file name and t2 for the header
generate_test_file(fs, t1, t2, requirements_, filename) ==
    LET name == IF filename = None THEN default_filename(t1) ELSE filename
        content == full_content(t2, requirements_)
        filepath == os_path_join(output_dir, name)
    IN  [files |-> WriteFile(fs, filepath, content),
         returned |-> content,
         filepath |-> filepath]

\* mutant of FeatureOf: the default is the one of the parser
FeatureOf_parser_default(req) == Get(req, "feature", unknown_feature)

\* req.get('feature', 'unknown')
FeatureOf(req) == Get(req, "feature", w_unknown)

\* mutant of AddToGroup: a record replaces the group of its feature
AddToGroup_replacing(groups, req) ==
    LET feature == FeatureOf(req)
        at == {g \in 1..Len(groups) : groups[g][1] = feature}
    IN  IF at = {} THEN Append(groups, <<feature, <<req>>>>)
        ELSE [groups EXCEPT ![CHOOSE g \in at : TRUE][2] = <<req>>]

\* one round of the grouping loop; feature_groups, a dict, is the sequence of
\* its <<key, value>> pairs in insertion order
AddToGroup(groups, req) ==
    LET feature == FeatureOf(req)
        at == {g \in 1..Len(groups) : groups[g][1] = feature}
    IN  IF at = {} THEN Append(groups, <<feature, <<req>>>>)
        ELSE [groups EXCEPT ![CHOOSE g \in at : TRUE][2] = Append(@, req)]

RECURSIVE GroupByFeature(_, _, _)
GroupByFeature(requirements_, k, groups) ==
    IF k > Len(requirements_) THEN groups
    ELSE GroupByFeature(requirements_, k + 1, AddToGroup(groups, requirements_[k]))

RECURSIVE WriteGroups(_, _, _, _, _)
\* the loop over feature_groups.items(): the k-th file is written at clock
\* second stamps[k]
WriteGroups(fs, groups, k, stamps, generated_files) ==
    IF k > Len(groups) THEN [files |-> fs, returned |-> generated_files]
    ELSE LET filename == feature_filename(groups[k][1])
             call == generate_test_file(fs, stamps[k], stamps[k], groups[k][2], filename)
         IN  WriteGroups(call.files, groups, k + 1, stamps,
                         Append(generated_files, os_path_join(output_dir, filename)))

generate_multiple_files(fs, stamps, requirements_) ==
    WriteGroups(fs, GroupByFeature(requirements_, 1, <<>>), 1, stamps, <<>>)

-----------------------------------------------------------------------------
(* Inputs of the parser *)

\* the requirement sentences of the __main__ block of requirements_parser.py
Example1 ==
    <<"T", "h", "e", " ", "s", "y", "s", "t", "e", "m", " ", "s", "h", "o", "u", "l",
      "d", " ", "a", "l", "l", "o", "w", " ", "l", "o", "g", "i", "n", " ", "w", "i",
      "t", "h", " ", "u", "s", "e", "r", "n", "a", "m", "e", " ", "a", "n", "d", " ",
      "p", "a", "s", "s", "w", "o", "r", "d", ".">>
Example2 ==
    <<"U", "s", "e", "r", "s", " ", "m", "u", "s", "t", " ", "b", "e", " ", "a", "b",
      "l", "e", " ", "t", "o", " ", "r", "e", "g", "i", "s", "t", "e", "r", " ", "u",
      "s", "i", "n", "g", " ", "v", "a", "l", "i", "d", " ", "e", "m", "a", "i", "l",
      " ", "a", "d", "d", "r", "e", "s", "s", ".">>
Example3 ==
    <<"T", "h", "e", " ", "a", "p", "p", "l", "i", "c", "a", "t", "i", "o", "n", " ",
      "s", "h", "o", "u", "l", "d", " ", "v", "a", "l", "i", "d", "a", "t", "e", " ",
      "u", "s", "e", "r", " ", "i", "n", "p", "u", "t", " ", "a", "n", "d", " ", "d",
      "i", "s", "p", "l", "a", "y", " ", "e", "r", "r", "o", "r", " ", "m", "e", "s",
      "s", "a", "g", "e", "s", " ", "f", "o", "r", " ", "i", "n", "v", "a", "l", "i",
      "d", " ", "d", "a", "t", "a", ".">>
Example4 ==
    <<"S", "e", "a", "r", "c", "h", " ", "f", "u", "n", "c", "t", "i", "o", "n", "a",
      "l", "i", "t", "y", " ", "s", "h", "o", "u", "l", "d", " ", "r", "e", "t", "u",
      "r", "n", " ", "r", "e", "l", "e", "v", "a", "n", "t", " ", "r", "e", "s", "u",
      "l", "t", "s", " ", "w", "h", "e", "n", " ", "u", "s", "e", "r", " ", "e", "n",
      "t", "e", "r", "s", " ", "k", "e", "y", "w", "o", "r", "d", "s", ".">>
Examples == {Example1, Example2, Example3, Example4}

\* pieces of requirement text; an input is a concatenation of at most MaxFrags of them
f_We == <<"W", "e", " ">>
f_should == <<"s", "h", "o", "u", "l", "d", " ">>
f_login == <<"l", "o", "g", "i", "n">>
f_search == <<"s", "e", "a", "r", "c", "h">>
f_with == <<" ", "w", "i", "t", "h", " ">>
f_using == <<" ", "u", "s", "i", "n", "g", " ">>
f_a_and_b == <<"a", " ", "a", "n", "d", " ", "b">>
f_invalid_id == <<"i", "n", "v", "a", "l", "i", "d", " ", "i", "d">>
f_successful == <<"s", "u", "c", "c", "e", "s", "s", "f", "u", "l">>
f_error == <<"e", "r", "r", "o", "r">>
f_space_period == <<" ", ".">>
f_newline_X == <<"\n", "X">>
Fragments ==
    {f_We, f_should, f_login, f_search, f_with, f_using,
     f_a_and_b, f_invalid_id, f_successful, f_error, f_space_period, f_newline_X}

MaxFrags == 3

RECURSIVE Texts(_)
\* the concatenations of at most n fragments
Texts(n) ==
    IF n = 0 THEN {<<>>}
    ELSE LET shorter == Texts(n - 1)
         IN  shorter \cup {t \o f : t \in shorter, f \in Fragments}

\* whitespace-only inputs
EdgeInputs == {<<" ">>, <<" ", "\t", "\n">>}

Inputs == Texts(MaxFrags) \cup Examples \cup EdgeInputs


-----------------------------------------------------------------------------
(* Inputs of the generator *)

c_username_and_password == <<"u", "s", "e", "r", "n", "a", "m", "e", " ", "a", "n", "d", " ", "p", "a", "s", "s", "w", "o", "r", "d">>
c_valid_email_address == <<"v", "a", "l", "i", "d", " ", "e", "m", "a", "i", "l", " ", "a", "d", "d", "r", "e", "s", "s">>
c_user_input == <<"u", "s", "e", "r", " ", "i", "n", "p", "u", "t">>
e_successful_login == <<"s", "u", "c", "c", "e", "s", "s", "f", "u", "l", " ", "l", "o", "g", "i", "n">>
e_successful_registration == <<"s", "u", "c", "c", "e", "s", "s", "f", "u", "l", " ", "r", "e", "g", "i", "s", "t", "r", "a", "t", "i", "o", "n">>
e_display_error_messages == <<"d", "i", "s", "p", "l", "a", "y", " ", "e", "r", "r", "o", "r", " ", "m", "e", "s", "s", "a", "g", "e", "s", " ", "f", "o", "r", " ", "i", "n", "v", "a", "l", "i", "d", " ", "d", "a", "t", "a">>

\* sample_requirements of the __main__ block of test_generator.py
SampleRequirements ==
    {[feature |-> kw_login, conditions |-> <<c_username_and_password>>,
      expected |-> e_successful_login, original_text |-> Example1],
     [feature |-> kw_register, conditions |-> <<c_valid_email_address>>,
      expected |-> e_successful_registration, original_text |-> Example2],
     [feature |-> kw_validate, conditions |-> <<c_user_input>>,
      expected |-> e_display_error_messages, original_text |-> Example3]}

w_logins == <<"l", "o", "g", "i", "n", "s">>
w_Login == <<"L", "o", "g", "i", "n">>
w_user_profile == <<"u", "s", "e", "r", "-", "p", "r", "o", "f", "i", "l", "e">>

\* feature values given to the generator directly
DirectFeatures ==
    {kw_login, kw_register, w_registration, kw_validate, w_validation, kw_search,
     w_logins, w_Login, w_user_profile, w_unknown}

Records == {[r EXCEPT !.feature = f] : r \in SampleRequirements, f \in DirectFeatures}

-----------------------------------------------------------------------------
(* The pipeline: raw text -> structured record -> generated test text *)

NoRecord == [feature |-> <<>>, conditions |-> <<>>, expected |-> <<>>, original_text |-> <<>>]

\* no batch call has been made and the output directory is empty
NoFiles ==
    /\ files = <<>>
    /\ clock = 0
    /\ requirements = <<>>
    /\ last_op = "none"
    /\ returned = <<>>
    /\ written = <<>>
    /\ file_name = <<>>
    /\ write_log = <<>>
    /\ ops = 0

\* no _generate_test_name call has been made
NoNames ==
    /\ name_call = <<>>
    /\ name_result = <<>>

\* no TestReporter call has been made
NoReports ==
    /\ report_pc = "ready"
    /\ report_call = <<>>
    /\ proc = <<>>
    /\ completed = <<>>
    /\ result = <<>>

\* no generate_test_file invocation runs in parallel with another
NoWorkers == workers = <<>>

\* no Calculator has been constructed
NoCalculator ==
    /\ lists = <<>>
    /\ history = 0
    /\ calc_op = <<>>
    /\ calc_returned = <<>>
    /\ calc_log = <<>>

\* either a requirement text waits to be parsed, or a record built by the
\* caller waits to be handed to the generator
Init ==
    /\ action_keywords = InitActionKeywords
    /\ \/ pc = "idle" /\ requirement_text \in Inputs /\ requirement = NoRecord
       \/ pc = "direct" /\ requirement_text = <<>> /\ requirement \in Records
    /\ parsed = NoRecord
    /\ test_code = <<>>
    /\ calls = <<>>
    /\ NoFiles
    /\ NoNames
    /\ NoReports
    /\ NoWorkers
    /\ NoCalculator

\* mutant of ParseCall: the parser moves the keyword it matched to the front
\* of its vocabulary
ParseCall_move_to_front(t) ==
    /\ parsed' = parse_requirement(action_keywords, t)
    /\ action_keywords' =
          IF parsed'.feature \in Range(action_keywords)
          THEN <<parsed'.feature>>
               \o SelectSeq(action_keywords, LAMBDA kw : kw # parsed'.feature)
          ELSE action_keywords

\* parser.parse_requirement(t)
ParseCall(t) ==
    /\ parsed' = parse_requirement(action_keywords, t)
    /\ UNCHANGED action_keywords

\* the pipeline parses its input text
ParseRequirement ==
    /\ pc = "idle"
    /\ ParseCall(requirement_text)
    /\ pc' = "parsed"
    /\ UNCHANGED <<requirement_text, requirement, test_code, calls>>
    /\ UNCHANGED <<fileVars, nameVars, reportVars, parallelVars, calcVars>>

\* generator.generate_test_from_requirement(parsed): the record comes from the parser
GenerateFromParsed ==
    /\ pc = "parsed"
    /\ requirement' = parsed
    /\ test_code' = generate_test_from_requirement(parsed)
    /\ pc' = "generated"
    /\ UNCHANGED <<action_keywords, requirement_text, parsed, calls>>
    /\ UNCHANGED <<fileVars, nameVars, reportVars, parallelVars, calcVars>>

\* generator.generate_test_from_requirement(requirement): the record comes from the caller
GenerateFromRecord ==
    /\ pc = "direct"
    /\ test_code' = generate_test_from_requirement(requirement)
    /\ pc' = "generated_direct"
    /\ UNCHANGED <<action_keywords, requirement_text, parsed, requirement, calls>>
    /\ UNCHANGED <<fileVars, nameVars, reportVars, parallelVars, calcVars>>

Next == ParseRequirement \/ GenerateFromParsed \/ GenerateFromRecord

Spec == Init /\ [][Next]_vars

-----------------------------------------------------------------------------
(* Repeated calls on one parser object *)

MaxCalls == 3

\* the texts parsed repeatedly
CallInputs ==
    Examples \cup {<<>>, f_We, f_newline_X, f_search \o f_login}

InitCalls ==
    /\ action_keywords = InitActionKeywords
    /\ pc = "idle"
    /\ requirement_text = <<>>
    /\ parsed = NoRecord
    /\ requirement = NoRecord
    /\ test_code = <<>>
    /\ calls = <<>>
    /\ NoFiles
    /\ NoNames
    /\ NoReports
    /\ NoWorkers
    /\ NoCalculator

\* one more parser.parse_requirement(t) on the same parser object
ParseAgain ==
    /\ Len(calls) < MaxCalls
    /\ \E t \in CallInputs :
          /\ ParseCall(t)
          /\ requirement_text' = t
          /\ calls' = Append(calls, <<t, parsed'>>)
    /\ pc' = "parsed"
    /\ UNCHANGED <<requirement, test_code>>
    /\ UNCHANGED <<fileVars, nameVars, reportVars, parallelVars, calcVars>>

NextCalls == ParseAgain

SpecCalls == InitCalls /\ [][NextCalls]_vars

-----------------------------------------------------------------------------
(* One batch call on a Generator with an empty output directory *)

MaxReqs == 3
MaxClock == 1

\* a second login record and a record without the key "feature"
r_login_empty ==
    [feature |-> kw_login, conditions |-> <<no_specific_conditions>>,
     expected |-> system_responds_appropriately, original_text |-> <<>>]
r_no_feature ==
    [conditions |-> <<c_user_input>>, expected |-> e_display_error_messages,
     original_text |-> f_We]

\* the records the batches are made of
BatchRecords ==
    {r \in Records : r.feature \in {kw_login, kw_register, w_registration}
                     /\ r.original_text = IF r.feature = kw_login THEN Example1 ELSE Example2}
    \cup {r_login_empty, r_no_feature}

RECURSIVE Batches(_)
\* the sequences of at most n records
Batches(n) ==
    IF n = 0 THEN {<<>>}
    ELSE LET shorter == Batches(n - 1)
         IN  shorter \cup {Append(b, r) : b \in shorter, r \in BatchRecords}

\* file names a caller passes to generate_test_file
f_test_example_py == <<"t", "e", "s", "t", "_", "e", "x", "a", "m", "p", "l", "e", ".", "p", "y">>
CallerFileNames == {f_test_example_py, feature_filename(kw_login)}

\* the nondecreasing sequences of n clock readings from second t on
Readings(t, n) ==
    {s \in [1..n -> t..MaxClock] : \A k \in 1..(n - 1) : s[k] <= s[k + 1]}

InitFiles ==
    /\ action_keywords = InitActionKeywords
    /\ pc = "idle"
    /\ requirement_text = <<>>
    /\ parsed = NoRecord
    /\ requirement = NoRecord
    /\ test_code = <<>>
    /\ calls = <<>>
    /\ files = <<>>
    /\ clock = 0
    /\ requirements \in Batches(MaxReqs)
    /\ last_op = "none"
    /\ returned = <<>>
    /\ written = <<>>
    /\ file_name = <<>>
    /\ write_log = <<>>
    /\ ops = 0
    /\ NoNames
    /\ NoReports
    /\ NoWorkers
    /\ NoCalculator

\* generator.generate_test_file(requirements, filename)
GenerateTestFile ==
    /\ last_op = "none"
    /\ \E filename \in CallerFileNames \cup {None} :
       \E s \in Readings(clock, 2) :
          LET call == generate_test_file(files, s[1], s[2], requirements, filename)
          IN  /\ files' = call.files
              /\ returned' = call.returned
              /\ written' = <<call.filepath>>
              /\ write_log' = Append(write_log, call.filepath)
              /\ file_name' = filename
              /\ ops' = ops + 1
              /\ clock' = s[2]
    /\ last_op' = "generate_test_file"
    /\ UNCHANGED requirements
    /\ UNCHANGED <<parserVars, nameVars, reportVars, parallelVars, calcVars>>

\* generator.generate_multiple_files(requirements)
GenerateMultipleFiles ==
    /\ last_op = "none"
    /\ LET n == Len(GroupByFeature(requirements, 1, <<>>))
       IN  \E stamps \in Readings(clock, n) :
              LET call == generate_multiple_files(files, stamps, requirements)
              IN  /\ files' = call.files
                  /\ returned' = call.returned
                  /\ written' = call.returned
                  /\ write_log' = write_log \o call.returned
                  /\ clock' = IF n = 0 THEN clock ELSE stamps[n]
    /\ last_op' = "generate_multiple_files"
    /\ ops' = ops + 1
    /\ UNCHANGED <<requirements, file_name>>
    /\ UNCHANGED <<parserVars, nameVars, reportVars, parallelVars, calcVars>>

NextFiles == GenerateTestFile \/ GenerateMultipleFiles

SpecFiles == InitFiles /\ [][NextFiles]_vars

-----------------------------------------------------------------------------
(* Calls of _generate_test_name *)

MaxConds == 2

f_user_space_profile == <<"u", "s", "e", "r", " ", " ", "p", "r", "o", "f", "i", "l", "e">>
f_a_dot_b == <<"a", ".", "b">>
c_a_b_c_d == <<"a", "-", "b", " ", "c", " ", "d">>
c_and_or == <<"a", "n", "d", " ", "o", "r">>
c_with_x == <<"w", "i", "t", "h", " ", " ", "x">>
c_a_comma_b == <<"a", ",", "b">>

\* feature values and conditions handed to _generate_test_name
NameFeatures == {kw_login, w_user_profile, f_user_space_profile, f_a_dot_b}
NameConditionPool ==
    {c_username_and_password, no_specific_conditions, c_a_b_c_d, c_and_or,
     c_with_x, c_a_comma_b}

RECURSIVE ConditionLists(_)
\* the lists of at most n conditions
ConditionLists(n) ==
    IF n = 0 THEN {<<>>}
    ELSE LET shorter == ConditionLists(n - 1)
         IN  shorter \cup {Append(l, c) : l \in shorter, c \in NameConditionPool}

InitNames ==
    /\ action_keywords = InitActionKeywords
    /\ pc = "idle"
    /\ requirement_text = <<>>
    /\ parsed = NoRecord
    /\ requirement = NoRecord
    /\ test_code = <<>>
    /\ calls = <<>>
    /\ NoFiles
    /\ name_call \in NameFeatures \X ConditionLists(MaxConds)
    /\ name_result = <<>>
    /\ NoReports
    /\ NoWorkers
    /\ NoCalculator

\* generator._generate_test_name(feature, conditions)
GenerateTestName ==
    /\ name_result = <<>>
    /\ name_result' = _generate_test_name(name_call[1], name_call[2])
    /\ UNCHANGED name_call
    /\ UNCHANGED <<parserVars, fileVars, reportVars, parallelVars, calcVars>>

NextNames == GenerateTestName

SpecNames == InitNames /\ [][NextNames]_vars

-----------------------------------------------------------------------------
(* TestReporter (executor.py)                                              *)
(*                                                                         *)
(* A run_tests_with_*_report call starts pytest with subprocess.run and    *)
(* waits; what the external process does is the environment's choice.  A   *)
(* character outside ASCII is written as the item "U+<code point>".        *)

MaxExitCode == 6

\* the return codes of the external processes (negative: killed by a signal)
ExitCodes == (-2..MaxExitCode) \cup {255}

\* timeout=300 of subprocess.run
TimeoutSeconds == 300

reports_dir == <<"reports">>

Methods == {"html", "allure", "json"}

\* str(n) of an integer
str_int(n) == IF n < 0 THEN <<"-">> \o int_str(0 - n) ELSE int_str(n)

\* mutant of _get_status_message: exit code 5 is not told apart
_get_status_message_without_5(exit_code) ==
    IF exit_code = 0 THEN <<"U+1F389", " All tests passed!">>
    ELSE IF exit_code = 1 THEN <<"U+274C", " Some tests failed">>
    ELSE <<"U+2753", " Unknown exit code: ">> \o str_int(exit_code)

_get_status_message(exit_code) ==
    IF exit_code = 0 THEN <<"U+1F389", " All tests passed!">>
    ELSE IF exit_code = 1 THEN <<"U+274C", " Some tests failed">>
    ELSE IF exit_code = 5 THEN <<"U+26A0", "U+FE0F", " No tests collected">>
    ELSE <<"U+2753", " Unknown exit code: ">> \o str_int(exit_code)

\* the classes an exception object is an instance of
BasesOf(class) ==
    CASE class = "TimeoutExpired" ->
            {"TimeoutExpired", "SubprocessError", "Exception", "BaseException"}
      [] class \in {"FileNotFoundError", "PermissionError"} ->
            {class, "OSError", "Exception", "BaseException"}
      [] class = "JSONDecodeError" ->
            {"JSONDecodeError", "ValueError", "Exception", "BaseException"}

\* the exceptions the environment raises, with str(e)
e_TimeoutExpired ==
    [class |-> "TimeoutExpired", text |-> <<"Command '[...]' timed out after 300 seconds">>]
e_python_missing ==
    [class |-> "FileNotFoundError", text |-> <<"[Errno 2] No such file or directory: 'python'">>]
e_allure_missing ==
    [class |-> "FileNotFoundError", text |-> <<"[Errno 2] No such file or directory: 'allure'">>]
e_permission ==
    [class |-> "PermissionError", text |-> <<"[Errno 13] Permission denied: 'python'">>]
e_json ==
    [class |-> "JSONDecodeError", text |-> <<"Expecting value: line 1 column 1 (char 0)">>]

\* mutant of ExceptClauses: only the timeout is handled
ExceptClauses_timeout_only(method) == <<"TimeoutExpired">>

\* the except clauses after the try block of each method, in order
ExceptClauses(method) ==
    IF method = "json" THEN <<"Exception">>
    ELSE <<"TimeoutExpired", "Exception">>

\* what a method does with an exception raised inside its try block: the
\* first clause the exception is an instance of returns a record; without
\* one the exception leaves the method
Handle(method, e) ==
    LET clauses == ExceptClauses(method)
        fit == {k \in 1..Len(clauses) : clauses[k] \in BasesOf(e.class)}
    IN  IF fit = {} THEN [pc |-> "raised", result |-> e]
        ELSE IF clauses[CHOOSE k \in fit : \A j \in fit : k <= j] = "TimeoutExpired"
        THEN [pc |-> "returned",
              result |-> [error |-> <<"Test execution timed out">>, success |-> FALSE]]
        ELSE [pc |-> "returned",
              result |-> [error |-> e.text, success |-> FALSE]]

\* datetime.now().isoformat(), to the second
isoformat(t) == <<"2024-01-01T12:00:">> \o TwoDigits(t)

\* the process subprocess.run starts and waits for, with the keyword
\* arguments of the call
PytestProcess ==
    [tool |-> "pytest", outcome |-> "running",
     kwargs |-> [capture_output |-> TRUE, text |-> TRUE, timeout |-> TimeoutSeconds]]
AllureProcess ==
    [tool |-> "allure", outcome |-> "running",
     kwargs |-> [capture_output |-> TRUE, text |-> TRUE]]

\* the path of the report, made from the timestamp taken at the start
report_path(method, timestamp) ==
    IF method = "html"
    THEN os_path_join(reports_dir, <<"test_report_">> \o timestamp \o <<".html">>)
    ELSE IF method = "json"
    THEN os_path_join(reports_dir, <<"test_report_">> \o timestamp \o <<".json">>)
    ELSE os_path_join(reports_dir, <<"allure-results-">> \o timestamp)

allure_report_dir(timestamp) ==
    os_path_join(reports_dir, <<"allure-report-">> \o timestamp)

\* the record of run_tests_with_html_report
html_result(t, call, run, exists) ==
    [timestamp |-> isoformat(t),
     exit_code |-> run.returncode,
     success |-> (run.returncode = 0),
     html_report_path |-> IF exists THEN report_path("html", call.timestamp) ELSE None,
     stdout |-> run.stdout,
     stderr |-> run.stderr,
     report_type |-> "HTML",
     message |-> _get_status_message(run.returncode)]

\* the record of run_tests_with_json_report; json_data is the loaded report
json_result(t, call, run, exists, json_data) ==
    [timestamp |-> isoformat(t),
     exit_code |-> run.returncode,
     success |-> (run.returncode = 0),
     json_report_path |-> IF exists THEN report_path("json", call.timestamp) ELSE None,
     json_data |-> json_data,
     stdout |-> run.stdout,
     stderr |-> run.stderr,
     report_type |-> "JSON",
     message |-> _get_status_message(run.returncode)]

\* the record of run_tests_with_allure_report
allure_result(t, call, run, allure_returncode) ==
    [timestamp |-> isoformat(t),
     exit_code |-> run.returncode,
     success |-> (run.returncode = 0),
     allure_results_dir |-> report_path("allure", call.timestamp),
     allure_report_dir |-> IF allure_returncode = 0
                           THEN allure_report_dir(call.timestamp) ELSE None,
     stdout |-> run.stdout,
     stderr |-> run.stderr,
     allure_generation_success |-> (allure_returncode = 0),
     report_type |-> "Allure",
     message |-> _get_status_message(run.returncode)]

\* what pytest prints
Outputs == {<<>>, <<"1 passed">>}

InitReports ==
    /\ action_keywords = InitActionKeywords
    /\ pc = "idle"
    /\ requirement_text = <<>>
    /\ parsed = NoRecord
    /\ requirement = NoRecord
    /\ test_code = <<>>
    /\ calls = <<>>
    /\ NoFiles
    /\ NoNames
    /\ NoReports
    /\ NoWorkers
    /\ NoCalculator

\* reporter.run_tests_with_<method>_report(): the timestamp is taken and
\* pytest is started with timeout=300
StartReport ==
    /\ report_pc = "ready"
    /\ \E method \in Methods :
       \E t \in clock..MaxClock :
          /\ report_call' = [method |-> method, timestamp |-> strftime_compact(t)]
          /\ clock' = t
    /\ proc' = PytestProcess
    /\ report_pc' = "pytest"
    /\ UNCHANGED <<completed, result>>
    /\ UNCHANGED <<files, requirements, last_op, returned, written, file_name, write_log, ops>>
    /\ UNCHANGED <<parserVars, nameVars, parallelVars, calcVars>>

\* pytest exits in time; the html and json methods build their record, the
\* allure method starts "allure generate" without a timeout
PytestExits ==
    /\ report_pc = "pytest"
    /\ \E code \in ExitCodes, out \in Outputs, report \in {"absent", "present", "malformed"} :
       \E t \in clock..MaxClock :
          LET run == [returncode |-> code, stdout |-> out, stderr |-> <<>>]
              method == report_call.method
              json_fails == Handle(method, e_json)
          IN  /\ completed' = run
              /\ clock' = t
              /\ IF method = "allure"
                 THEN /\ report = "absent"
                      /\ proc' = AllureProcess
                      /\ report_pc' = "allure"
                      /\ UNCHANGED result
                 ELSE /\ proc' = [proc EXCEPT !.outcome = "exited"]
                      /\ IF method = "html"
                         THEN /\ report_pc' = "returned"
                              /\ result' = html_result(t, report_call, run, report # "absent")
                         ELSE IF report = "malformed"
                         THEN /\ report_pc' = json_fails.pc
                              /\ result' = json_fails.result
                         ELSE /\ report_pc' = "returned"
                              /\ result' = json_result(t, report_call, run, report = "present",
                                                       IF report = "present"
                                                       THEN <<"summary">> ELSE None)
    /\ UNCHANGED report_call
    /\ UNCHANGED <<files, requirements, last_op, returned, written, file_name, write_log, ops>>
    /\ UNCHANGED <<parserVars, nameVars, parallelVars, calcVars>>

\* the process is still running when its timeout ends: subprocess.run kills
\* it and raises TimeoutExpired
ProcessTimesOut ==
    /\ report_pc \in {"pytest", "allure"}
    /\ "timeout" \in DOMAIN proc.kwargs
    /\ proc' = [proc EXCEPT !.outcome = "timeout"]
    /\ LET h == Handle(report_call.method, e_TimeoutExpired)
       IN  /\ report_pc' = h.pc
           /\ result' = h.result
    /\ UNCHANGED <<report_call, completed>>
    /\ UNCHANGED <<fileVars, parserVars, nameVars, parallelVars, calcVars>>

\* subprocess.run cannot start the tool and raises
ProcessFailsToStart ==
    /\ report_pc \in {"pytest", "allure"}
    /\ \E e \in IF report_pc = "pytest" THEN {e_python_missing, e_permission}
                ELSE {e_allure_missing} :
          LET h == Handle(report_call.method, e)
          IN  /\ report_pc' = h.pc
              /\ result' = h.result
    /\ proc' = [proc EXCEPT !.outcome = "failed"]
    /\ UNCHANGED <<report_call, completed>>
    /\ UNCHANGED <<fileVars, parserVars, nameVars, parallelVars, calcVars>>

\* "allure generate" exits and the allure method builds its record
AllureExits ==
    /\ report_pc = "allure"
    /\ \E code \in {0, 1} :
       \E t \in clock..MaxClock :
          /\ result' = allure_result(t, report_call, completed, code)
          /\ clock' = t
    /\ proc' = [proc EXCEPT !.outcome = "exited"]
    /\ report_pc' = "returned"
    /\ UNCHANGED <<report_call, completed>>
    /\ UNCHANGED <<files, requirements, last_op, returned, written, file_name, write_log, ops>>
    /\ UNCHANGED <<parserVars, nameVars, parallelVars, calcVars>>

NextReports ==
    \/ StartReport
    \/ PytestExits
    \/ ProcessTimesOut
    \/ ProcessFailsToStart
    \/ AllureExits

SpecReports == InitReports /\ [][NextReports]_vars

-----------------------------------------------------------------------------
(* The Generator on the caller's objects                                   *)
(*                                                                         *)
(* The batch is a Python list of dicts that the caller keeps.  A store     *)
(* holds the list as the sequence of the references to its records and the *)
(* records by reference, so that a statement that writes to an object it   *)
(* was handed shows in what the caller holds after the call.               *)

MaxBatch == 2
MaxOps == 2

\* the store in which the caller holds the batch
InputStore(batch) == [list |-> [k \in 1..Len(batch) |-> k], recs |-> batch]

\* the batch as the caller sees it
Deref(store) == [k \in 1..Len(store.list) |-> store.recs[store.list[k]]]

\* mutant of dict_get: a missing key is set to the default
dict_setdefault(store, ref, key, default) ==
    IF key \in DOMAIN store.recs[ref]
    THEN [store |-> store, value |-> store.recs[ref][key]]
    ELSE [store |-> [store EXCEPT !.recs[ref] = (key :> default) @@ @],
          value |-> default]

\* requirement.get(key, default) on the record behind ref
dict_get(store, ref, key, default) ==
    [store |-> store, value |-> Get(store.recs[ref], key, default)]

\* generate_test_from_requirement on the record behind ref
generate_test_from_requirement_at(store, ref) ==
    LET feature == dict_get(store, ref, "feature", w_unknown)
        conditions == dict_get(feature.store, ref, "conditions", <<>>)
        expected == dict_get(conditions.store, ref, "expected", w_success)
        original_text == dict_get(expected.store, ref, "original_text", <<>>)
        test_name == _generate_test_name(feature.value, conditions.value)
    IN  [store |-> original_text.store,
         value |-> _generate_test_code(test_name, feature.value, conditions.value,
                                       expected.value, original_text.value)]

RECURSIVE TestCasesAt(_, _, _, _)
\* the loop  for requirement in requirements: test_cases.append(...)  over
\* the references refs; test_cases is a list of the call's own
TestCasesAt(store, refs, k, test_cases) ==
    IF k > Len(refs) THEN [store |-> store, value |-> test_cases]
    ELSE LET unit == generate_test_from_requirement_at(store, refs[k])
         IN  TestCasesAt(unit.store, refs, k + 1, Append(test_cases, unit.value))

\* generate_test_file(refs, filename) at clock second t
generate_test_file_at(store, fs, t, refs, filename) ==
    LET name == IF filename = None THEN default_filename(t) ELSE filename
        units == TestCasesAt(store, refs, 1, <<>>)
        content == file_header(t, refs) \o str_join(<<"\n\n">>, units.value)
        filepath == os_path_join(output_dir, name)
    IN  [store |-> units.store,
         files |-> WriteFile(fs, filepath, content),
         returned |-> content,
         filepath |-> filepath]

RECURSIVE GroupByFeatureAt(_, _, _)
\* the grouping loop over the caller's list: every group is a list of the
\* call's own that holds references to the caller's records
GroupByFeatureAt(store, k, groups) ==
    IF k > Len(store.list) THEN [store |-> store, value |-> groups]
    ELSE LET req == store.list[k]
             feature == dict_get(store, req, "feature", w_unknown)
             at == {g \in 1..Len(groups) : groups[g][1] = feature.value}
         IN  GroupByFeatureAt(
                 feature.store, k + 1,
                 IF at = {} THEN Append(groups, <<feature.value, <<req>>>>)
                 ELSE [groups EXCEPT ![CHOOSE g \in at : TRUE][2] = Append(@, req)])

RECURSIVE WriteGroupsAt(_, _, _, _, _, _)
WriteGroupsAt(store, fs, t, groups, k, generated_files) ==
    IF k > Len(groups) THEN [store |-> store, files |-> fs, returned |-> generated_files]
    ELSE LET filename == feature_filename(groups[k][1])
             call == generate_test_file_at(store, fs, t, groups[k][2], filename)
         IN  WriteGroupsAt(call.store, call.files, t, groups, k + 1,
                           Append(generated_files, os_path_join(output_dir, filename)))

\* generate_multiple_files(requirements) at clock second t
generate_multiple_files_at(store, fs, t) ==
    LET groups == GroupByFeatureAt(store, 1, <<>>)
    IN  WriteGroupsAt(groups.store, fs, t, groups.value, 1, <<>>)

\* records that lack keys
r_feature_only == [feature |-> kw_register]

\* the records of the session's batches: between them every key is missing
SessionRecords ==
    {r \in SampleRequirements : r.feature = kw_login} \cup {r_no_feature, r_feature_only}

RECURSIVE SessionBatches(_)
SessionBatches(n) ==
    IF n = 0 THEN {<<>>}
    ELSE LET shorter == SessionBatches(n - 1)
         IN  shorter \cup {Append(b, r) : b \in shorter, r \in SessionRecords}

\* a Generator with an empty output directory and a caller holding a batch
InitSession ==
    /\ action_keywords = InitActionKeywords
    /\ pc = "idle"
    /\ requirement_text = <<>>
    /\ parsed = NoRecord
    /\ requirement = NoRecord
    /\ test_code = <<>>
    /\ calls = <<>>
    /\ files = <<>>
    /\ clock = 0
    /\ requirements \in SessionBatches(MaxBatch)
    /\ last_op = "none"
    /\ returned = <<>>
    /\ written = <<>>
    /\ file_name = <<>>
    /\ write_log = <<>>
    /\ ops = 0
    /\ NoNames
    /\ NoReports
    /\ NoWorkers
    /\ NoCalculator

\* generator.generate_test_from_requirement(requirements[k])
SessionGenerateOne ==
    /\ ops < MaxOps
    /\ \E k \in 1..Len(requirements) :
          LET call == generate_test_from_requirement_at(InputStore(requirements), k)
          IN  /\ requirement' = requirements[k]
              /\ test_code' = call.value
              /\ returned' = call.value
              /\ requirements' = Deref(call.store)
    /\ last_op' = "generate_test_from_requirement"
    /\ written' = <<>>
    /\ ops' = ops + 1
    /\ pc' = "generated_direct"
    /\ UNCHANGED <<files, clock, file_name, write_log>>
    /\ UNCHANGED <<action_keywords, requirement_text, parsed, calls>>
    /\ UNCHANGED <<nameVars, reportVars, parallelVars, calcVars>>

\* generator.generate_test_file(requirements, filename), one more call of
\* the session
SessionGenerateTestFile ==
    /\ ops < MaxOps
    /\ \E filename \in {None, feature_filename(kw_login)} :
       \E t \in clock..MaxClock :
          LET store == InputStore(requirements)
              call == generate_test_file_at(store, files, t, store.list, filename)
          IN  /\ files' = call.files
              /\ returned' = call.returned
              /\ written' = <<call.filepath>>
              /\ write_log' = Append(write_log, call.filepath)
              /\ file_name' = filename
              /\ requirements' = Deref(call.store)
              /\ clock' = t
    /\ last_op' = "generate_test_file"
    /\ ops' = ops + 1
    /\ UNCHANGED <<parserVars, nameVars, reportVars, parallelVars, calcVars>>

\* generator.generate_multiple_files(requirements), one more call of the
\* session
SessionGenerateMultipleFiles ==
    /\ ops < MaxOps
    /\ \E t \in clock..MaxClock :
          LET call == generate_multiple_files_at(InputStore(requirements), files, t)
          IN  /\ files' = call.files
              /\ returned' = call.returned
              /\ written' = call.returned
              /\ write_log' = write_log \o call.returned
              /\ requirements' = Deref(call.store)
              /\ clock' = t
    /\ last_op' = "generate_multiple_files"
    /\ ops' = ops + 1
    /\ UNCHANGED file_name
    /\ UNCHANGED <<parserVars, nameVars, reportVars, parallelVars, calcVars>>

NextSession ==
    \/ SessionGenerateOne
    \/ SessionGenerateTestFile
    \/ SessionGenerateMultipleFiles

SpecSession == InitSession /\ [][NextSession]_vars

-----------------------------------------------------------------------------
(* Two generate_test_file invocations in parallel on one output directory  *)
(*                                                                         *)
(* An external caller runs one invocation per worker.  An invocation reads *)
(* the clock for the default file name, reads it again for the header,     *)
(* opens the path with mode 'w', which empties the file, and writes its    *)
(* text when the with block closes the file; the steps of the two          *)
(* invocations interleave in any order.                                    *)

MaxWorkerReqs == 1

\* the records the workers are handed
WorkerRecords == {r_login_empty, r_feature_only}

RECURSIVE WorkerBatches(_)
\* the sequences of at most n of them
WorkerBatches(n) ==
    IF n = 0 THEN {<<>>}
    ELSE LET shorter == WorkerBatches(n - 1)
         IN  shorter \cup {Append(b, r) : b \in shorter, r \in WorkerRecords}

\* an invocation that has been called and has not run a statement yet:
\* passed is the argument filename as the caller gave it
Invocations ==
    {[pc |-> "called", requirements |-> b, passed |-> f, filename |-> f,
      full_content |-> <<>>, filepath |-> <<>>] :
        b \in WorkerBatches(MaxWorkerReqs), f \in CallerFileNames \cup {None}}

InitParallel ==
    /\ action_keywords = InitActionKeywords
    /\ pc = "idle"
    /\ requirement_text = <<>>
    /\ parsed = NoRecord
    /\ requirement = NoRecord
    /\ test_code = <<>>
    /\ calls = <<>>
    /\ NoFiles
    /\ NoNames
    /\ NoReports
    /\ workers \in {<<a, b>> : a, b \in Invocations}
    /\ NoCalculator

\* the file after a handle opened at offset 0 has written text over what
\* the file held; positions are counted in items of the text
WriteAtStart(old, text) == text \o SubSeq(old, Len(text) + 1, Len(old))

\* if filename is None: the name is made from a reading of the clock
WorkerNamesFile(w) ==
    /\ workers[w].pc = "called"
    /\ IF workers[w].filename = None
       THEN \E t \in clock..MaxClock :
               /\ workers' = [workers EXCEPT ![w].filename = default_filename(t),
                                             ![w].pc = "named"]
               /\ clock' = t
       ELSE /\ workers' = [workers EXCEPT ![w].pc = "named"]
            /\ UNCHANGED clock
    /\ UNCHANGED <<files, requirements, last_op, returned, written, file_name, write_log, ops>>
    /\ UNCHANGED <<parserVars, nameVars, reportVars, calcVars>>

\* the header is made from a second reading of the clock, the units are
\* generated and joined
WorkerBuildsContent(w) ==
    /\ workers[w].pc = "named"
    /\ \E t \in clock..MaxClock :
          /\ workers' = [workers EXCEPT
                            ![w].full_content = full_content(t, workers[w].requirements),
                            ![w].pc = "built"]
          /\ clock' = t
    /\ UNCHANGED <<files, requirements, last_op, returned, written, file_name, write_log, ops>>
    /\ UNCHANGED <<parserVars, nameVars, reportVars, calcVars>>

\* open(filepath, 'w'): the file is created or emptied
WorkerOpensFile(w) ==
    /\ workers[w].pc = "built"
    /\ LET filepath == os_path_join(output_dir, workers[w].filename)
       IN  /\ files' = WriteFile(files, filepath, <<>>)
           /\ write_log' = Append(write_log, filepath)
           /\ workers' = [workers EXCEPT ![w].filepath = filepath, ![w].pc = "opened"]
    /\ UNCHANGED <<clock, requirements, last_op, returned, written, file_name, ops>>
    /\ UNCHANGED <<parserVars, nameVars, reportVars, calcVars>>

\* f.write(full_content), the end of the with block, which writes the text
\* through the handle, and return full_content
WorkerWritesAndReturns(w) ==
    /\ workers[w].pc = "opened"
    /\ files' = WriteFile(files, workers[w].filepath,
                          WriteAtStart(files[workers[w].filepath], workers[w].full_content))
    /\ workers' = [workers EXCEPT ![w].pc = "returned"]
    /\ UNCHANGED <<clock, requirements, last_op, returned, written, file_name, write_log, ops>>
    /\ UNCHANGED <<parserVars, nameVars, reportVars, calcVars>>

NextParallel ==
    \/ \E w \in DOMAIN workers : WorkerNamesFile(w)
    \/ \E w \in DOMAIN workers : WorkerBuildsContent(w)
    \/ \E w \in DOMAIN workers : WorkerOpensFile(w)
    \/ \E w \in DOMAIN workers : WorkerWritesAndReturns(w)

SpecParallel == InitParallel /\ [][NextParallel]_vars

-----------------------------------------------------------------------------
(* Calculator (tests/sample_code.py)                                       *)
(*                                                                         *)
(* self.history refers to a list object: add appends to that object,       *)
(* clear_history makes self.history refer to a new empty list, and         *)
(* get_history returns the object itself.  The lists are kept by identity. *)

MaxOperand == 0
MaxCalcCalls == 3

\* the arguments of add: the pairs of the tests and the pairs of small
\* integers, negative ones included
OperandPairs ==
    {<<5, 3>>, <<10, 2>>} \cup {<<a, b>> : a, b \in (-1)..MaxOperand}

\* f"{a} + {b} = {result}"
history_entry(a, b, result_) ==
    str_int(a) \o <<" ", "+", " ">> \o str_int(b) \o <<" ", "=", " ">> \o str_int(result_)

\* Calculator(): self.history = []
InitCalculator ==
    /\ action_keywords = InitActionKeywords
    /\ pc = "idle"
    /\ requirement_text = <<>>
    /\ parsed = NoRecord
    /\ requirement = NoRecord
    /\ test_code = <<>>
    /\ calls = <<>>
    /\ NoFiles
    /\ NoNames
    /\ NoReports
    /\ NoWorkers
    /\ lists = << <<>> >>
    /\ history = 1
    /\ calc_op = <<"__init__">>
    /\ calc_returned = None
    /\ calc_log = <<>>

\* mutant of Calculator_add: the entry is put in front of the history
Calculator_add_in_front(ls, h, a, b) ==
    LET result_ == a + b
    IN  [lists |-> [ls EXCEPT ![h] = <<history_entry(a, b, result_)>> \o @],
         returned |-> result_]

\* Calculator.add(a, b), self.history being the list h of the lists ls
Calculator_add(ls, h, a, b) ==
    LET result_ == a + b
    IN  [lists |-> [ls EXCEPT ![h] = Append(@, history_entry(a, b, result_))],
         returned |-> result_]

\* Calculator.get_history(): the list object itself
Calculator_get_history(ls, h) == h

\* Calculator.clear_history(): self.history = [], a new list object
Calculator_clear_history(ls, h) ==
    [lists |-> Append(ls, <<>>), history |-> Len(ls) + 1]

\* calc.add(a, b)
CalcAdd ==
    /\ Len(calc_log) < MaxCalcCalls
    /\ \E ab \in OperandPairs :
          LET call == Calculator_add(lists, history, ab[1], ab[2])
          IN  /\ lists' = call.lists
              /\ calc_returned' = call.returned
              /\ calc_op' = <<"add", ab[1], ab[2]>>
              /\ calc_log' = Append(calc_log, <<"add", ab[1], ab[2]>>)
    /\ UNCHANGED history
    /\ UNCHANGED <<parserVars, fileVars, nameVars, reportVars, parallelVars>>

\* calc.clear_history()
CalcClearHistory ==
    /\ Len(calc_log) < MaxCalcCalls
    /\ LET call == Calculator_clear_history(lists, history)
       IN  /\ lists' = call.lists
           /\ history' = call.history
    /\ calc_returned' = None
    /\ calc_op' = <<"clear_history">>
    /\ calc_log' = Append(calc_log, <<"clear_history">>)
    /\ UNCHANGED <<parserVars, fileVars, nameVars, reportVars, parallelVars>>

\* calc.get_history()
CalcGetHistory ==
    /\ calc_returned' = Calculator_get_history(lists, history)
    /\ calc_op' = <<"get_history">>
    /\ UNCHANGED <<lists, history, calc_log>>
    /\ UNCHANGED <<parserVars, fileVars, nameVars, reportVars, parallelVars>>

NextCalculator == CalcAdd \/ CalcClearHistory \/ CalcGetHistory

SpecCalculator == InitCalculator /\ [][NextCalculator]_vars

-----------------------------------------------------------------------------
(* What the parser's patterns mean, stated on positions of the text         *)
(* independently of the matcher above: a match starts at the leftmost       *)
(* position that admits one, \s+ takes the most whitespace that still       *)
(* admits one, the lazy group the fewest characters.                        *)

Min(S) == CHOOSE x \in S : \A y \in S : x <= y
Max(S) == CHOOSE x \in S : \A y \in S : x >= y

\* positions p..q-1 hold whitespace only
AllSpace(s, p, q) == \A k \in p..(q - 1) : IsSpace(s[k])

\* " and" (when withAnd), a period, or the end of the string follows at p,
\* after optional whitespace
StopsAt(s, p, withAnd) ==
    \E q \in p..(Len(s) + 1) :
        /\ AllSpace(s, p, q)
        /\ \/ withAnd /\ q > p /\ MatchAt(s, q, w_and)
           \/ q <= Len(s) /\ s[q] = "."
           \/ q = Len(s) + 1

\* the position after the stop that follows at p
StopEnd(s, p, withAnd) ==
    LET ands == {q \in (p + 1)..Len(s) : AllSpace(s, p, q) /\ MatchAt(s, q, w_and)}
        periods == {q \in p..Len(s) : AllSpace(s, p, q) /\ s[q] = "."}
    IN  IF withAnd /\ ands # {} THEN Max(ands) + Len(w_and)
        ELSE IF periods # {} THEN Max(periods) + 1
        ELSE Len(s) + 1

\* the numbers of whitespace characters \s+ may take after kw at i
Widths(s, i, kw) ==
    {w \in 1..(Len(s) - i - Len(kw) + 1) : AllSpace(s, i + Len(kw), i + Len(kw) + w)}

\* the ends e of a phrase s[g..e] free of excl and followed by a stop
GroupEnds(s, g, excl, withAnd) ==
    {e \in g..Len(s) : (\A k \in g..e : s[k] # excl) /\ StopsAt(s, e + 1, withAnd)}

PhraseStarts(s, from, kw, excl, withAnd) ==
    {i \in from..Len(s) :
        /\ MatchAt(s, i, kw)
        /\ \E w \in Widths(s, i, kw) : GroupEnds(s, i + Len(kw) + w, excl, withAnd) # {}}

\* the first phrase following kw at or after from: <<start, first, last, end>>
FirstPhrase(s, from, kw, excl, withAnd) ==
    LET starts == PhraseStarts(s, from, kw, excl, withAnd)
        i == Min(starts)
        w == Max({x \in Widths(s, i, kw) :
                    GroupEnds(s, i + Len(kw) + x, excl, withAnd) # {}})
        g == i + Len(kw) + w
        e == Min(GroupEnds(s, g, excl, withAnd))
    IN  IF starts = {} THEN NoMatch ELSE <<i, g, e, StopEnd(s, e + 1, withAnd)>>

RECURSIVE PhrasesFollowing(_, _, _)
\* every phrase following kw, scanning left to right, each scan resuming
\* where the previous phrase and its stop ended; surrounding whitespace removed
PhrasesFollowing(s, from, kw) ==
    LET m == FirstPhrase(s, from, kw, ".", TRUE)
    IN  IF m = NoMatch THEN <<>>
        ELSE <<str_strip(SubSeq(s, m[2], m[3]))>> \o PhrasesFollowing(s, m[4], kw)

\* the positions after from where "kw <word>" occurs
WordStarts(s, from, kw) ==
    {i \in from..Len(s) :
        /\ MatchAt(s, i, kw)
        /\ \E g \in (i + Len(kw) + 1)..Len(s) :
              AllSpace(s, i + Len(kw), g) /\ IsWordChar(s[g])}

\* the first "kw <word>" at or after from: <<start, first, last, end>> of the word
FirstWord(s, from, kw) ==
    LET starts == WordStarts(s, from, kw)
        i == Min(starts)
        g == Min({x \in (i + Len(kw) + 1)..Len(s) : ~IsSpace(s[x])})
        e == Max({x \in g..Len(s) : \A k \in g..x : IsWordChar(s[k])})
    IN  IF starts = {} THEN NoMatch ELSE <<i, g, e, e + 1>>

RECURSIVE OccurrencesOf(_, _, _)
\* every occurrence of "kw <word>", scanning left to right
OccurrencesOf(s, from, kw) ==
    LET m == FirstWord(s, from, kw)
    IN  IF m = NoMatch THEN <<>>
        ELSE <<SubSeq(s, m[1], m[3])>> \o OccurrencesOf(s, m[4], kw)

-----------------------------------------------------------------------------
(* Claims about the parser *)

\* parse_requirement has returned
Parsed == pc \in {"parsed", "generated"}

NormalizedText == Normalize(requirement_text)

\* C1: for every input string the returned record has a non-empty feature, a
\* non-empty expected and a non-empty conditions sequence.
C1_NonEmptyFields ==
    Parsed =>
        /\ parsed.feature # <<>>
        /\ parsed.expected # <<>>
        /\ parsed.conditions # <<>>

\* C2: for the example sentence "The system should allow login with username
\* and password." the feature is "login", some condition contains both
\* "username" and "password", and expected is non-empty.
w_username == <<"u", "s", "e", "r", "n", "a", "m", "e">>
w_password == <<"p", "a", "s", "s", "w", "o", "r", "d">>
C2_LoginExample ==
    (Parsed /\ requirement_text = Example1) =>
        /\ parsed.feature = kw_login
        /\ \E k \in 1..Len(parsed.conditions) :
              /\ str_in(w_username, parsed.conditions[k])
              /\ str_in(w_password, parsed.conditions[k])
        /\ parsed.expected # <<>>

\* C6: the feature is the first word of the ordered vocabulary that occurs in
\* the normalized text (by vocabulary order, not by position in the text);
\* when none occurs it is the word following "should" and whitespace; when
\* that is absent too it is "unknown_feature".
C6_FeatureByVocabularyOrder ==
    Parsed =>
        LET text == NormalizedText
            present == {k \in 1..Len(action_keywords) : str_in(action_keywords[k], text)}
            m == FirstWord(text, 1, w_should)
        IN  IF present # {} THEN parsed.feature = action_keywords[Min(present)]
            ELSE IF m # NoMatch THEN parsed.feature = SubSeq(text, m[2], m[3])
            ELSE parsed.feature = unknown_feature

\* C6 witness: "search" stands before "login" in the text and the feature is "login"
C6_Witness ==
    /\ Parsed
    /\ requirement_text = f_search \o f_login
    /\ parsed.feature = kw_login

MatchesNothing(text) ==
    /\ \A k \in 1..Len(action_keywords) : ~str_in(action_keywords[k], text)
    /\ WordStarts(text, 1, w_should) = {}
    /\ PhraseStarts(text, 1, w_should, "\n", FALSE) = {}
    /\ PhraseStarts(text, 1, w_with, ".", TRUE) = {}
    /\ PhraseStarts(text, 1, w_using, ".", TRUE) = {}
    /\ WordStarts(text, 1, w_valid) = {}
    /\ ~str_in(w_successful, text)
    /\ ~str_in(w_failure, text)
    /\ ~str_in(w_error, text)

\* C9: for the empty string and any string matching no keyword or pattern,
\* parse_requirement returns feature "unknown_feature", conditions
\* ["no specific conditions"] and expected "system responds appropriately"
\* (the call has no failing outcome: it returns a record for every input).
C9_FallbackRecord ==
    (Parsed /\ MatchesNothing(NormalizedText)) =>
        /\ parsed.feature = unknown_feature
        /\ parsed.conditions = <<no_specific_conditions>>
        /\ parsed.expected = system_responds_appropriately

\* C9 witness: the empty string has been parsed
C9_Witness ==
    /\ Parsed
    /\ requirement_text = <<>>
    /\ parsed.feature = unknown_feature

-----------------------------------------------------------------------------
(* Claims about generate_test_from_requirement *)

\* generate_test_from_requirement has returned
Generated == pc \in {"generated", "generated_direct"}

DocQuote == "    \"\"\"\n"
DocIntro == "    Test case generated from requirement:\n"

\* C3: the text generated from parse_requirement(text) holds text verbatim
\* inside the docstring: after the line that opens the docstring and the
\* line "Test case generated from requirement:", before the line that closes it.
C3_RoundTrip ==
    pc = "generated" =>
        \E i \in 4..(Len(test_code) - Len(requirement_text)) :
            /\ \A k \in 1..(i - 4) : test_code[k] # DocQuote
            /\ test_code[i - 3] = DocQuote
            /\ test_code[i - 2] = DocIntro
            /\ test_code[i - 1] = "    "
            /\ SubSeq(test_code, i, i + Len(requirement_text) - 1) = requirement_text
            /\ test_code[i + Len(requirement_text)] = "\n"
            /\ \E k \in (i + Len(requirement_text))..Len(test_code) : test_code[k] = DocQuote

\* C3 witness: a text with upper case and a line break has gone through the pipeline
C3_Witness ==
    /\ pc = "generated"
    /\ requirement_text = f_We \o f_should \o f_newline_X
    /\ requirement = parsed
    /\ test_code # <<>>

\* the line of each template that calls its placeholder operation (for the
\* generic template: its first marker comment)
TemplateLine(t) ==
    CASE t = "login" -> "    result = login_system(username, password)\n"
      [] t = "register" -> "    result = register_user(user_data)\n"
      [] t = "validation" -> "    result = validate_input(test_data)\n"
      [] t = "search" -> "    results = search_function(search_query)\n"
      [] t = "generic" -> "    # TODO: Set up test data based on your specific feature\n"

TemplateNames == {"login", "register", "validation", "search", "generic"}

TemplatesUsed(code) == {t \in TemplateNames : TemplateLine(t) \in Range(code)}

TemplateFor(feature) ==
    CASE feature = kw_login -> "login"
      [] feature \in {kw_register, w_registration} -> "register"
      [] feature \in {kw_validate, w_validation} -> "validation"
      [] feature = kw_search -> "search"
      [] OTHER -> "generic"

\* the generated text from the end of the function name on
TemplateBody(code) ==
    SubSeq(code, Min({k \in 1..Len(code) : code[k] = "():\n"}), Len(code))

\* C5: the template is selected by equality on feature: "login" the login
\* template, "register" and "registration" the registration template,
\* "validate" and "validation" the validation template, "search" the search
\* template, every other value the generic template; records that differ only
\* in feature being "register" or "registration" get the same template body.
C5_TemplateDispatch ==
    Generated =>
        /\ TemplatesUsed(test_code) = {TemplateFor(requirement.feature)}
        /\ requirement.feature = w_registration =>
              TemplateBody(test_code) =
                  TemplateBody(generate_test_from_requirement(
                      [requirement EXCEPT !.feature = kw_register]))

\* C5 witness: a record with feature "registration" got the registration template
C5_Witness ==
    /\ pc = "generated_direct"
    /\ requirement.feature = w_registration
    /\ TemplatesUsed(test_code) = {"register"}

-----------------------------------------------------------------------------
(* Claims about repeated parse calls *)

\* C10: two parse_requirement calls with the same text, whatever calls were
\* made on the parser object before and between them, return equal records,
\* and original_text of every returned record is the input exactly.
C10_Deterministic ==
    \A i, j \in 1..Len(calls) :
        /\ calls[i][2].original_text = calls[i][1]
        /\ calls[i][1] = calls[j][1] => calls[i][2] = calls[j][2]

\* C10 witness: the same text, with upper case and a trailing blank, parsed
\* before and after another text
C10_Witness ==
    /\ Len(calls) = 3
    /\ calls[1][1] = f_We
    /\ calls[2][1] = Example4
    /\ calls[3][1] = f_We
    /\ calls[3][2].original_text = f_We
    /\ calls[3][2].original_text # Normalize(f_We)

-----------------------------------------------------------------------------
(* Claims about generate_multiple_files *)

\* the positions of the batch where a feature value occurs for the first time
FirstSeen(batch) ==
    {k \in 1..Len(batch) : \A j \in 1..(k - 1) : FeatureOf(batch[j]) # FeatureOf(batch[k])}

\* the i-th smallest element of a set of numbers
Nth(S, i) == CHOOSE k \in S : Cardinality({j \in S : j < k}) = i - 1

\* the records of the batch whose feature is f, in input order
WithFeature(batch, f) == SelectSeq(batch, LAMBDA r : FeatureOf(r) = f)

\* C4: for a batch with N distinct feature values generate_multiple_files
\* writes exactly N files, named test_<feature>.py, each holding the units of
\* exactly the records of that feature, and returns the N paths in the order
\* in which the feature values first occur in the batch.
C4_OneFilePerFeature ==
    last_op = "generate_multiple_files" =>
        LET firsts == FirstSeen(requirements)
            N == Cardinality(firsts)
        IN  /\ Len(returned) = N
            /\ Cardinality(Range(returned)) = N
            /\ DOMAIN files = Range(returned)
            /\ Range(written) = Range(returned)
            /\ \A i \in 1..N :
                  LET f == FeatureOf(requirements[Nth(firsts, i)])
                  IN  /\ returned[i] = os_path_join(output_dir, test_prefix \o f \o <<".", "p", "y">>)
                      /\ \E t \in 0..MaxClock :
                            files[returned[i]] = full_content(t, WithFeature(requirements, f))

\* C4 witness: a batch login, register, login gives two files, the login
\* file first and with two units
C4_Witness ==
    /\ last_op = "generate_multiple_files"
    /\ Len(requirements) = 3
    /\ FeatureOf(requirements[1]) = kw_login
    /\ FeatureOf(requirements[2]) = kw_register
    /\ FeatureOf(requirements[3]) = kw_login
    /\ requirements[1] # requirements[3]
    /\ Len(returned) = 2
    /\ returned[1] = os_path_join(output_dir, feature_filename(kw_login))

-----------------------------------------------------------------------------
(* Claims about _generate_test_name *)

\* the call has returned
Named == name_result # <<>>

Alphanumeric == Range(LowerLetters) \cup Range(UpperLetters) \cup DigitChars

\* C11: after the prefix "test_" the generated name consists only of
\* alphanumeric characters and single separators "_" (every run of other
\* characters of the feature or the first condition became one separator).
C11_TokenSafeName ==
    Named =>
        LET rest == SubSeq(name_result, 6, Len(name_result))
        IN  /\ SubSeq(name_result, 1, 5) = <<"t", "e", "s", "t", "_">>
            /\ \A i \in 1..Len(rest) : rest[i] \in Alphanumeric \cup {"_"}
            /\ \A i \in 1..(Len(rest) - 1) : ~(rest[i] = "_" /\ rest[i + 1] = "_")

\* spaces and hyphens replaced by the separator
Sanitized(s) == [i \in 1..Len(s) |-> IF s[i] \in {" ", "-"} THEN "_" ELSE s[i]]

\* the pieces of s between its separators (empty pieces included)
TokensOf(s) ==
    LET seps == {0, Len(s) + 1} \cup {i \in 1..Len(s) : s[i] = "_"}
    IN  [k \in 1..(Cardinality(seps) - 1) |->
            SubSeq(s, Nth(seps, k) + 1, Nth(seps, k + 1) - 1)]

DiscardedTokens ==
    {<<"a", "n", "d">>, <<"o", "r">>, <<"w", "i", "t", "h">>, <<"u", "s", "i", "n", "g">>}

\* what a first condition adds to the name
SuffixOf(condition) ==
    LET kept == SelectSeq(TokensOf(Sanitized(condition)), LAMBDA w : w \notin DiscardedTokens)
    IN  IF Len(kept) = 0 THEN <<>>
        ELSE IF Len(kept) = 1 THEN <<"_">> \o kept[1]
        ELSE <<"_">> \o kept[1] \o <<"_">> \o kept[2]

\* neither empty nor the sentinel ["no specific conditions"]
HasConditions(conds) ==
    /\ conds # <<>>
    /\ conds # << <<"n", "o", " ", "s", "p", "e", "c", "i", "f", "i", "c", " ",
                    "c", "o", "n", "d", "i", "t", "i", "o", "n", "s">> >>

NameOf(feature, conds) ==
    <<"t", "e", "s", "t", "_">> \o Sanitized(feature)
    \o (IF HasConditions(conds) THEN SuffixOf(conds[1]) ELSE <<>>)

\* C12 (amended): the name is "test_" plus the sanitized feature plus, for
\* conditions that are neither empty nor the sentinel, at most the first two
\* kept tokens of the sanitized first condition; two condition sequences that
\* are both neither empty nor the sentinel and have the same first condition
\* give the same name.
C12_NameDerivation ==
    Named =>
        /\ name_result = NameOf(name_call[1], name_call[2])
        /\ \A others \in ConditionLists(MaxConds) :
              (HasConditions(name_call[2]) /\ HasConditions(others)
               /\ others[1] = name_call[2][1])
              => _generate_test_name(name_call[1], others) = name_result

\* C12 witness: two conditions, the first with three tokens of which two
\* are appended
C12_Witness ==
    /\ Named
    /\ Len(name_call[2]) = 2
    /\ name_call[2][1] = c_a_b_c_d
    /\ name_result = test_prefix \o kw_login \o <<"_", "a", "_", "b">>

\* C12 as stated: in addition, conditions after the first never influence
\* the name (any two non-empty sequences with the same first condition give
\* the same name).
C12_LaterConditionsNeverInfluence ==
    Named =>
        /\ name_result = NameOf(name_call[1], name_call[2])
        /\ \A others \in ConditionLists(MaxConds) :
              (name_call[2] # <<>> /\ others # <<>> /\ others[1] = name_call[2][1])
              => _generate_test_name(name_call[1], others) = name_result

-----------------------------------------------------------------------------
(* Claims about generate_test_file *)

\* the least index of an item of a text, 0 when the text lacks it
IndexOf(text, item) ==
    LET at == {i \in 1..Len(text) : text[i] = item}
    IN  IF at = {} THEN 0 ELSE Min(at)

RECURSIVE DecimalValue(_)
\* the number a sequence of decimal digits denotes
DecimalValue(digits) ==
    IF digits = <<>> THEN 0
    ELSE 10 * DecimalValue(SubSeq(digits, 1, Len(digits) - 1))
         + (CHOOSE d \in 0..9 : DecimalDigits[d + 1] = digits[Len(digits)])

\* the number the header of a file content states
StatedCount(content) ==
    LET from == IndexOf(content, "Number of test cases: ") + 1
        to == Min({i \in from..Len(content) : content[i] = "\n"}) - 1
    IN  DecimalValue(SubSeq(content, from, to))

\* the content after its header, which ends with the import lines and an
\* empty line
AfterHeader(content) ==
    SubSeq(content, IndexOf(content, "from typing import Dict, List, Optional\n") + 2,
           Len(content))

RECURSIVE UnitsFrom(_, _)
\* the units of the records k, k+1, ... of a batch, a blank line between them
UnitsFrom(batch, k) ==
    IF k > Len(batch) THEN <<>>
    ELSE generate_test_from_requirement(batch[k])
         \o (IF k < Len(batch) THEN <<"\n\n">> ELSE <<>>)
         \o UnitsFrom(batch, k + 1)

\* C13: generate_test_file returns a header stating len(requirements) test
\* cases followed by one unit per requirement in input order, blank lines
\* between them; the file output_dir/name holds exactly the returned text; and
\* without a name the file name is made from a reading of the clock.
C13_FileContent ==
    last_op = "generate_test_file" =>
        /\ IndexOf(returned, "Number of test cases: ") > 0
        /\ StatedCount(returned) = Len(requirements)
        /\ IndexOf(returned, "Created on: ") > 0
        /\ AfterHeader(returned) = UnitsFrom(requirements, 1)
        /\ Len(written) = 1
        /\ written[1] \in DOMAIN files
        /\ files[written[1]] = returned
        /\ file_name # None => written[1] = output_dir \o <<"/">> \o file_name
        /\ file_name = None =>
              \E t \in 0..clock :
                 written[1] = output_dir \o <<"/">> \o <<"t", "e", "s", "t", "_", "g", "e", "n", "e", "r", "a", "t", "e", "d", "_">>
                              \o strftime_compact(t) \o <<".", "p", "y">>

\* C13 witness: three records written to a file named after the clock
C13_Witness ==
    /\ last_op = "generate_test_file"
    /\ Len(requirements) = 3
    /\ requirements[1] # requirements[2]
    /\ file_name = None
    /\ clock = 1
    /\ files[written[1]] = returned

-----------------------------------------------------------------------------
(* Claims about TestReporter *)

\* the text reads as the decimal numeral of the integer n
IsNumeralOf(text, n) ==
    /\ text # <<>>
    /\ IF n < 0
       THEN /\ text[1] = "-"
            /\ Len(text) > 1
            /\ \A i \in 2..Len(text) : text[i] \in DigitChars
            /\ DecimalValue(Tail(text)) = 0 - n
       ELSE /\ \A i \in 1..Len(text) : text[i] \in DigitChars
            /\ DecimalValue(text) = n

\* C14: the status message is decided by the exit code alone: the "all
\* tests passed" message for 0, "some tests failed" for 1, "no tests
\* collected" for 5, and for every other code, negative ones and 2, 3, 4
\* included, the "unknown exit code" message followed by the code.
C14_StatusMessage ==
    (report_pc = "returned" /\ "exit_code" \in DOMAIN result) =>
        /\ "message" \in DOMAIN result
        /\ result.exit_code = completed.returncode
        /\ LET code == result.exit_code
               message == result.message
           IN  /\ code = 0 => message = <<"U+1F389", " All tests passed!">>
               /\ code = 1 => message = <<"U+274C", " Some tests failed">>
               /\ code = 5 => message = <<"U+26A0", "U+FE0F", " No tests collected">>
               /\ code \notin {0, 1, 5} =>
                     /\ Len(message) > 2
                     /\ SubSeq(message, 1, 2) = <<"U+2753", " Unknown exit code: ">>
                     /\ IsNumeralOf(SubSeq(message, 3, Len(message)), code)

\* C14 witness: records for a process killed by a signal, for exit code 5
\* and for a three-digit code
C14_Witness ==
    /\ report_pc = "returned"
    /\ "exit_code" \in DOMAIN result
    /\ result.exit_code = -2
    /\ result.message = <<"U+2753", " Unknown exit code: ", "-", "2">>

\* C15: when the test run exceeds its timeout, or a process call fails
\* unexpectedly, each of the three methods returns a record with
\* success = False and an error text, and no exception leaves the method.
C15_FailureResult ==
    (report_pc \in {"returned", "raised"} /\ proc.outcome \in {"timeout", "failed"}) =>
        /\ report_pc = "returned"
        /\ DOMAIN result = {"error", "success"}
        /\ result.success = FALSE
        /\ result.error # <<>>

\* C15 witness: the json method, which has no clause for the timeout of its
\* own, after the test run timed out
C15_Witness ==
    /\ report_pc = "returned"
    /\ report_call.method = "json"
    /\ proc.outcome = "timeout"
    /\ result.success = FALSE
    /\ result.error = e_TimeoutExpired.text

\* C16: every record the three methods return, on every exit path, carries
\* a timestamp, the exit code, the success flag, stdout, stderr, the report
\* type and the status message.
C16_CompleteRecord ==
    report_pc = "returned" =>
        /\ {"timestamp", "exit_code", "success", "stdout", "stderr",
            "report_type", "message"} \subseteq DOMAIN result
        /\ result.success \in BOOLEAN

\* C20: every external process a run_tests_with_*_report method waits for
\* was started with an explicit timeout (so that the wait, and with it the
\* method, ends whatever the process does).
C20_EveryWaitHasTimeout ==
    report_pc \in {"pytest", "allure"} =>
        /\ proc.outcome = "running"
        /\ "timeout" \in DOMAIN proc.kwargs

-----------------------------------------------------------------------------
(* Claims about a session of Generator calls *)

\* a record with the default literal in place of every missing key
Completed(r) ==
    [feature |-> IF "feature" \in DOMAIN r THEN r.feature ELSE <<"u", "n", "k", "n", "o", "w", "n">>,
     conditions |-> IF "conditions" \in DOMAIN r THEN r.conditions ELSE <<>>,
     expected |-> IF "expected" \in DOMAIN r THEN r.expected ELSE <<"s", "u", "c", "c", "e", "s", "s">>,
     original_text |-> IF "original_text" \in DOMAIN r THEN r.original_text ELSE <<>>]

\* C17: generate_test_from_requirement returns, for a record that lacks any
\* of the keys feature, conditions, expected, original_text, the unit of the
\* record completed with "unknown", [], "success" and ""; and
\* generate_test_file on a batch that holds such records returns and writes
\* the unit of every record of the batch.
C17_MissingKeysDefault ==
    /\ last_op = "generate_test_from_requirement" =>
          /\ test_code = generate_test_from_requirement(Completed(requirement))
          /\ returned = test_code
    /\ last_op = "generate_test_file" =>
          /\ StatedCount(returned) = Len(requirements)
          /\ AfterHeader(returned) =
                UnitsFrom([k \in 1..Len(requirements) |-> Completed(requirements[k])], 1)
          /\ files[written[1]] = returned

\* C17 witness: a batch of a record with the key feature alone and a
\* complete record, written by generate_test_file
C17_Witness ==
    /\ last_op = "generate_test_file"
    /\ Len(requirements) = 2
    /\ DOMAIN requirements[1] = {"feature"}
    /\ DOMAIN requirements[2] = {"feature", "conditions", "expected", "original_text"}
    /\ files[written[1]] = returned
    /\ IndexOf(returned, "\n\n") > 0

\* C18: no path of the output directory is written more than once.
C18_WriteOnce ==
    \A i, j \in 1..Len(write_log) : i # j => write_log[i] # write_log[j]

\* C19: no call of generate_test_from_requirement, generate_test_file or
\* generate_multiple_files changes the batch the caller holds: the list and
\* every field of every record are after the call what they were before.
C19_InputsUntouched == [][requirements' = requirements]_vars

\* C19 witness: two calls have been made on a batch with a record that
\* lacks keys, the second writing one file per feature
C19_Witness ==
    /\ ops = 2
    /\ last_op = "generate_multiple_files"
    /\ Len(requirements) = 2
    /\ DOMAIN requirements[2] = {"feature"}
    /\ Len(returned) = 2

-----------------------------------------------------------------------------
(* Claims about generate_test_file invocations that run in parallel *)

\* both invocations have returned
BothReturned == \A w \in DOMAIN workers : workers[w].pc = "returned"

\* the caller passed the same file name to both invocations
SameNamePassed ==
    /\ workers[1].passed # None
    /\ workers[2].passed # None
    /\ workers[1].passed = workers[2].passed

\* C21: for any interleaving of two generate_test_file invocations to which
\* the caller did not pass the same file name (invocations without a name
\* included), the two invocations write to different files and each file
\* ends holding exactly the content its own invocation returned.
C21_ParallelIndependent ==
    (BothReturned /\ ~SameNamePassed) =>
        /\ workers[1].filepath # workers[2].filepath
        /\ \A w \in DOMAIN workers :
              files[workers[w].filepath] = workers[w].full_content

-----------------------------------------------------------------------------
(* Claims about the Calculator *)

\* the text is str(n): the decimal numeral of n without leading zeros
IsStrOf(text, n) ==
    /\ IsNumeralOf(text, n)
    /\ LET digits == IF n < 0 THEN Tail(text) ELSE text
       IN  Len(digits) > 1 => digits[1] # "0"

\* the text reads "a + b = s"
ReadsAsSum(text, a, b, s) ==
    \E i, j \in 1..Len(text) :
        /\ i + 2 < j
        /\ j + 2 < Len(text)
        /\ IsStrOf(SubSeq(text, 1, i - 1), a)
        /\ SubSeq(text, i, i + 2) = <<" ", "+", " ">>
        /\ IsStrOf(SubSeq(text, i + 3, j - 1), b)
        /\ SubSeq(text, j, j + 2) = <<" ", "=", " ">>
        /\ IsStrOf(SubSeq(text, j + 3, Len(text)), s)

\* the add calls of a log that follow its last clear_history call, in call
\* order: all of them when the log has no clear_history
AddsSinceClear(log) ==
    LET clears == {k \in 1..Len(log) : log[k][1] = "clear_history"}
        from == IF clears = {} THEN 1 ELSE Max(clears) + 1
    IN  SubSeq(log, from, Len(log))

\* C22: after any sequence of add and clear_history calls get_history
\* returns exactly one entry "a + b = result" for each add made since the
\* most recent clear_history (or since construction), in call order; add
\* returns a + b; and after clear_history the history is empty.
C22_HistoryOfAdds ==
    /\ calc_op[1] = "get_history" =>
          LET got == lists[calc_returned]
              adds == AddsSinceClear(calc_log)
          IN  /\ Len(got) = Len(adds)
              /\ \A k \in 1..Len(adds) :
                    ReadsAsSum(got[k], adds[k][2], adds[k][3], adds[k][2] + adds[k][3])
    /\ calc_op[1] = "add" => calc_returned = calc_op[2] + calc_op[3]
    /\ calc_op[1] = "clear_history" => lists[history] = <<>>

\* C22 witness: get_history after add(5, 3), clear_history, add(10, 2)
\* returns the one entry "10 + 2 = 12"
C22_Witness ==
    /\ calc_op[1] = "get_history"
    /\ calc_log = <<<<"add", 5, 3>>, <<"clear_history">>, <<"add", 10, 2>>>>
    /\ lists[calc_returned] = << <<"1", "0", " ", "+", " ", "2", " ", "=", " ", "1", "2">> >>

-----------------------------------------------------------------------------
(* Claims about the partition generate_multiple_files makes *)

RECURSIVE SplitAtBlankLines(_)
\* the pieces of a text between the blank lines that join the units
SplitAtBlankLines(text) ==
    LET i == IndexOf(text, "\n\n")
    IN  IF i = 0 THEN <<text>>
        ELSE <<SubSeq(text, 1, i - 1)>> \o SplitAtBlankLines(SubSeq(text, i + 1, Len(text)))

\* the units a file content holds after its header
UnitsIn(content) ==
    LET body == AfterHeader(content)
    IN  IF body = <<>> THEN <<>> ELSE SplitAtBlankLines(body)

\* the file of a record: that of its feature value, "unknown" for a record
\* without the key
FileOfRecord(r) ==
    <<"t", "e", "s", "t", "s", "/", "g", "e", "n", "e", "r", "a", "t", "e", "d", "/", "t", "e", "s", "t", "_">>
    \o (IF "feature" \in DOMAIN r THEN r.feature ELSE <<"u", "n", "k", "n", "o", "w", "n">>)
    \o <<".", "p", "y">>

\* the place of the k-th record of a batch: its file, and its rank among the
\* records of the batch that go to that file
PlaceOf(batch, k) ==
    <<FileOfRecord(batch[k]),
      Cardinality({j \in 1..k : FileOfRecord(batch[j]) = FileOfRecord(batch[k])})>>

\* the places of the units of the files
UnitPlaces(fs) ==
    UNION {{<<p, i>> : i \in 1..Len(UnitsIn(fs[p]))} : p \in DOMAIN fs}

RECURSIVE SumOfStatedCounts(_, _)
\* the sum of the counts the headers of the files paths state
SumOfStatedCounts(fs, paths) ==
    IF paths = {} THEN 0
    ELSE LET p == CHOOSE q \in paths : TRUE
         IN  StatedCount(fs[p]) + SumOfStatedCounts(fs, paths \ {p})

\* C23: generate_multiple_files partitions its input: every record yields
\* exactly one unit in exactly one file, the file of its feature value
\* ("unknown" without the key); the units of a file keep the relative input
\* order; the counts of the headers sum to len(requirements); and an empty
\* input produces no file and returns an empty list.
C23_Partition ==
    last_op = "generate_multiple_files" =>
        LET n == Len(requirements)
        IN  /\ {PlaceOf(requirements, k) : k \in 1..n} = UnitPlaces(files)
            /\ Cardinality(UnitPlaces(files)) = n
            /\ \A k \in 1..n :
                  LET place == PlaceOf(requirements, k)
                  IN  UnitsIn(files[place[1]])[place[2]]
                         = generate_test_from_requirement(requirements[k])
            /\ SumOfStatedCounts(files, DOMAIN files) = n
            /\ Range(returned) = DOMAIN files
            /\ n = 0 => (files = <<>> /\ returned = <<>>)

\* C23 witness: a batch of a login record, a record without the key feature
\* and a different login record gives a file of two units and the file of
\* "unknown"
C23_Witness ==
    /\ last_op = "generate_multiple_files"
    /\ Len(requirements) = 3
    /\ "feature" \notin DOMAIN requirements[2]
    /\ requirements[1] # requirements[3]
    /\ FileOfRecord(requirements[1]) = FileOfRecord(requirements[3])
    /\ Len(UnitsIn(files[FileOfRecord(requirements[1])])) = 2
    /\ FileOfRecord(requirements[2]) \in DOMAIN files
    /\ StatedCount(files[FileOfRecord(requirements[2])]) = 1

\* C23 witness for the empty input: the call returned [] and made no file
C23_EmptyInput ==
    /\ last_op = "generate_multiple_files"
    /\ requirements = <<>>
    /\ returned = <<>>
    /\ files = <<>>

====
